---------------------------- MODULE Spec2Model ----------------------------
(***************************************************************************)
(* Model of cloud-images-downloader: the process-wide repository registry  *)
(* (repositories/mod.rs), the operator flow of main.rs with the three      *)
(* provider wizards (pick_ubuntu, pick_debian_with_hint, pick_almalinux),  *)
(* the artifact download (helpers/image_resolver) and download_and_verify  *)
(* (debian/mod.rs).                                                        *)
(***************************************************************************)
EXTENDS Integers, Sequences, FiniteSets, TLC

VARIABLES
    CACHE,        \* repositories::CACHE, the OnceLock<Vec<Repository>>
    regLast,      \* the last initialization call: its result and what it offered
    regFirst,     \* history: the configuration parsed by the first successful call
    regOkCount,   \* history: number of initialization calls that returned Ok
    regCalls,     \* history: number of registry calls made
    regRead,      \* result of the last by_name / all / all_owned call
    pc,           \* main.rs: where the operator flow stands
    exitCode,     \* the process's exit status, once it has ended
    distro,       \* prompt_and_select: the chosen distro
    arch,         \* the provider wizard's `arch`
    codename,     \* pick_debian_interactive: the chosen codename
    hint,         \* pick_debian_with_hint: distro_version_hint
    major,        \* pick_almalinux: the chosen major
    menu,         \* the codename options / the majors awaiting their prompt
    images,       \* the wizard's working candidate list
    listed,       \* history: the list the provider function returned
    listCalls,    \* history: number of calls of a provider list function
    picks,        \* the wizard's locals distro_version, image_version, image_type, ...
    prompts,      \* history: every prompt shown, with its items and selection
    netlog,       \* history: every network request issued
    cancelledAt,  \* history: index in prompts of the cancelled prompt, or 0
    error,        \* the error the resolution returned
    selected,     \* the image prompt_and_select returned
    outFile,      \* the bytes of the output file, once created
    dlStatus,     \* the HTTP status of the download's response
    dlResult,     \* download_file's result
    dvPc,         \* download_and_verify: idle, fetching, returned or panicked
    dvAsset,      \* download_and_verify: the ImageAsset it was given
    dvBytes,      \* download_and_verify: the bytes fetched
    dvFile,       \* download_and_verify: the bytes of out_path, once written
    dvResult,     \* download_and_verify: the Result it returned
    call,         \* the provider library function called, with its arguments
    ret,          \* what that call returned, once it has
    asked,        \* the network requests that call issued, in order
    tmpDir,       \* std::env::temp_dir(): the files it holds, by name
    resolutions   \* history: every catalogue construction, in order

regVars == <<CACHE, regLast, regFirst, regOkCount, regCalls, regRead>>

wizVars == <<distro, arch, codename, hint, major, menu, images, picks, listed, listCalls>>

logVars == <<prompts, netlog, cancelledAt>>

endVars == <<error, selected, outFile, dlStatus, dlResult>>

flowVars == <<pc, exitCode, wizVars, logVars, endVars>>

dvVars == <<dvPc, dvAsset, dvBytes, dvFile, dvResult>>

cacheVars == <<tmpDir, resolutions>>

libVars == <<call, ret, asked, cacheVars>>

vars == <<regVars, flowVars, dvVars, libVars>>

-----------------------------------------------------------------------------
(* Option and Result values *)

None == [some |-> FALSE]

Some(x) == [some |-> TRUE, val |-> x]

Ok(x) == [ok |-> TRUE, val |-> x]

Err(e) == [ok |-> FALSE, err |-> e]

-----------------------------------------------------------------------------
(* Bounds *)

MaxCalls == 4

-----------------------------------------------------------------------------
(* Repository registry: repositories/mod.rs, repositories/models.rs *)

\* A Repository: name, URL template (its text cut at the "{}" placeholders)
\* and the optional extra parameters.
Repository(name, url, params) == [name |-> name, url |-> url, other_parameters |-> params]

RepoUbuntu ==
    Repository("ubuntu", <<"https://cloud-images.ubuntu.com/", "{}", "/streams/v1/download.json">>,
               Some([k \in {"base_for_paths"} |-> <<"https://cloud-images.ubuntu.com/", "{}", "/">>]))

RepoDebian ==
    Repository("debian", <<"https://cloud.debian.org/images/cloud/", "{}", "/latest/">>, None)

RepoAlma ==
    Repository("almalinux", <<"https://repo.almalinux.org/almalinux/", "{}", "/cloud/", "{}", "/images/">>, None)

\* An almalinux entry whose URL has no placeholder, and one that names its
\* majors root
RepoAlmaFlat == Repository("almalinux", <<"https://repo.almalinux.org/almalinux/">>, None)

RepoAlmaRooted ==
    Repository("almalinux", <<"https://repo.almalinux.org/almalinux/", "{}", "/cloud/", "{}", "/images/">>,
               Some([k \in {"majors_root"} |-> "https://repo.almalinux.org/almalinux/"]))

RepoUbuntuMirror ==
    Repository("ubuntu", <<"https://mirror.example/", "{}", "/streams/v1/download.json">>,
               Some([k \in {"base_for_paths"} |-> <<"https://mirror.example/", "{}", "/">>]))

\* The JSON documents the initialization calls are given.
JsonDocs == {"full", "mirror_only", "empty_array", "malformed"}

\* serde_json::from_str::<Vec<Repository>>
serde_from_str(json) ==
    CASE json = "full"        -> Ok(<<RepoUbuntu, RepoDebian, RepoAlma>>)
      [] json = "mirror_only" -> Ok(<<RepoUbuntuMirror>>)
      [] json = "empty_array" -> Ok(<< >>)
      [] json = "alma_flat"   -> Ok(<<RepoAlmaFlat>>)
      [] json = "alma_rooted" -> Ok(<<RepoAlmaRooted>>)
      [] OTHER                -> Err("Json")

\* A cell that takes every value it is given
OnceLockSetOverwrite(cell, value) == [cell |-> Some(value), res |-> Ok("unit")]

\* OnceLock::set: stores the value only when the cell is empty.
OnceLockSet(cell, value) ==
    IF cell.some
    THEN [cell |-> cell, res |-> Err("AlreadyInitialized")]
    ELSE [cell |-> Some(value), res |-> Ok("unit")]

init_from_json_str(cell, json) ==
    LET parsed == serde_from_str(json)
    IN  IF ~parsed.ok
        THEN [cell |-> cell, res |-> Err("Json")]
        ELSE OnceLockSet(cell, parsed.val)

\* The files and environment variables an initialization call may name:
\* None is a missing file (or an unset variable).
FileContents == {None} \cup {Some(j) : j \in JsonDocs}

init_from_file(cell, content) ==
    IF ~content.some
    THEN [cell |-> cell, res |-> Err("Io")]
    ELSE init_from_json_str(cell, content.val)

init_from_env(cell, content) ==
    IF ~content.some
    THEN [cell |-> cell, res |-> Err("MissingEnv")]
    ELSE init_from_json_str(cell, content.val)

\* repos.iter().find(|r| r.name() == name)
FindByName(repos, name) ==
    LET hits == {i \in 1..Len(repos) : repos[i].name = name}
    IN  IF hits = {} THEN None
        ELSE Some(repos[CHOOSE i \in hits : \A j \in hits : i <= j])

by_name(cell, name) ==
    IF ~cell.some THEN Err("NotInitialized") ELSE Ok(FindByName(cell.val, name))

all(cell) ==
    IF ~cell.some THEN Err("NotInitialized") ELSE Ok(cell.val)

all_owned(cell) ==
    IF ~cell.some THEN Err("NotInitialized") ELSE Ok(cell.val)

RepoNames == {"ubuntu", "debian", "almalinux", "fedora"}

\* What an initialization call parsed from its input, before OnceLock::set
Offered(content) ==
    IF content.some THEN serde_from_str(content.val) ELSE Err("Missing")

\* An initialization call and the history kept beside it: the result with the
\* configuration the call offered, and the configuration of the first call
\* to return Ok.
RegistryCall(r, offered) ==
    /\ CACHE' = r.cell
    /\ regLast' = Some([res |-> r.res, offered |-> offered])
    /\ regOkCount' = IF r.res.ok THEN regOkCount + 1 ELSE regOkCount
    /\ regFirst' = IF r.res.ok /\ ~regFirst.some THEN Some(offered.val) ELSE regFirst
    /\ regCalls' = regCalls + 1
    /\ regRead' = None

InitFromJsonStr ==
    /\ regCalls < MaxCalls
    /\ \E json \in JsonDocs :
          RegistryCall(init_from_json_str(CACHE, json), Offered(Some(json)))
    /\ UNCHANGED <<flowVars, dvVars, libVars>>

InitFromFile ==
    /\ regCalls < MaxCalls
    /\ \E content \in FileContents :
          RegistryCall(init_from_file(CACHE, content), Offered(content))
    /\ UNCHANGED <<flowVars, dvVars, libVars>>

InitFromEnv ==
    /\ regCalls < MaxCalls
    /\ \E content \in FileContents :
          RegistryCall(init_from_env(CACHE, content), Offered(content))
    /\ UNCHANGED <<flowVars, dvVars, libVars>>

ReadByName ==
    /\ regCalls < MaxCalls
    /\ \E name \in RepoNames :
          regRead' = Some([op |-> "by_name", name |-> name, res |-> by_name(CACHE, name)])
    /\ regCalls' = regCalls + 1
    /\ UNCHANGED <<CACHE, regLast, regFirst, regOkCount, flowVars, dvVars, libVars>>

ReadAll ==
    /\ regCalls < MaxCalls
    /\ regRead' = Some([op |-> "all", name |-> "", res |-> all(CACHE)])
    /\ regCalls' = regCalls + 1
    /\ UNCHANGED <<CACHE, regLast, regFirst, regOkCount, flowVars, dvVars, libVars>>

ReadAllOwned ==
    /\ regCalls < MaxCalls
    /\ regRead' = Some([op |-> "all_owned", name |-> "", res |-> all_owned(CACHE)])
    /\ regCalls' = regCalls + 1
    /\ UNCHANGED <<CACHE, regLast, regFirst, regOkCount, flowVars, dvVars, libVars>>

InitRegistry ==
    /\ CACHE = None
    /\ regLast = None
    /\ regFirst = None
    /\ regOkCount = 0
    /\ regCalls = 0
    /\ regRead = None

NextRegistry ==
    \/ InitFromJsonStr
    \/ InitFromFile
    \/ InitFromEnv
    \/ ReadByName
    \/ ReadAll
    \/ ReadAllOwned

-----------------------------------------------------------------------------
(* Strings: Rust compares String values byte by byte. *)

\* The UTF-8 bytes of the strings the wizard sorts.
Bytes(s) ==
    CASE s = "8"                                         -> <<56>>
      [] s = "9"                                         -> <<57>>
      [] s = "10"                                        -> <<49, 48>>
      [] s = "latest"                                    -> <<108, 97, 116, 101, 115, 116>>
      [] s = "20240101"                                  -> <<50, 48, 50, 52, 48, 49, 48, 49>>
      [] s = "qcow2"                                     -> <<113, 99, 111, 119, 50>>
      [] s = "raw"                                       -> <<114, 97, 119>>
      [] s = "jammy"                                     -> <<106, 97, 109, 109, 121>>
      [] s = "noble"                                     -> <<110, 111, 98, 108, 101>>
      [] s = "stable"                                    -> <<115, 116, 97, 98, 108, 101>>
      [] s = "bookworm"                                  -> <<98, 111, 111, 107, 119, 111, 114, 109>>
      [] s = "trixie"                                    -> <<116, 114, 105, 120, 105, 101>>
      [] s = "GenericCloud"                              -> <<71, 101, 110, 101, 114, 105, 99, 67, 108, 111, 117, 100>>
      [] s = "OpenNebula"                                -> <<79, 112, 101, 110, 78, 101, 98, 117, 108, 97>>
      [] s = "amd64"                                     -> <<97, 109, 100, 54, 52>>
      [] s = "arm64"                                     -> <<97, 114, 109, 54, 52>>
      [] s = "ppc64el"                                   -> <<112, 112, 99, 54, 52, 101, 108>>
      [] s = "s390x"                                     -> <<115, 51, 57, 48, 120>>
      [] s = "com.ubuntu.cloud:server:22.04:"            -> <<99, 111, 109, 46, 117, 98, 117, 110, 116, 117, 46, 99, 108, 111, 117, 100, 58, 115, 101, 114, 118, 101, 114, 58, 50, 50, 46, 48, 52, 58>>
      [] s = "com.ubuntu.cloud.daily:server:22.04:"      -> <<99, 111, 109, 46, 117, 98, 117, 110, 116, 117, 46, 99, 108, 111, 117, 100, 46, 100, 97, 105, 108, 121, 58, 115, 101, 114, 118, 101, 114, 58, 50, 50, 46, 48, 52, 58>>
      [] s = "com.ubuntu.cloud:server:24.04"             -> <<99, 111, 109, 46, 117, 98, 117, 110, 116, 117, 46, 99, 108, 111, 117, 100, 58, 115, 101, 114, 118, 101, 114, 58, 50, 52, 46, 48, 52>>
      [] s = "com.ubuntu.cloud:minimal:22.04:"           -> <<99, 111, 109, 46, 117, 98, 117, 110, 116, 117, 46, 99, 108, 111, 117, 100, 58, 109, 105, 110, 105, 109, 97, 108, 58, 50, 50, 46, 48, 52, 58>>
      [] s = "riscv64"                                   -> <<114, 105, 115, 99, 118, 54, 52>>
      [] s = "href=\""                                   -> <<104, 114, 101, 102, 61, 34>>
      [] s = "/\""                                       -> <<47, 34>>
      [] s = "<a href=\""                                -> <<60, 97, 32, 104, 114, 101, 102, 61, 34>>
      [] s = "/\">dir</a>"                               -> <<47, 34, 62, 100, 105, 114, 60, 47, 97, 62>>
      [] s = "debian"                                    -> <<100, 101, 98, 105, 97, 110>>
      [] s = "debian-"                                   -> <<100, 101, 98, 105, 97, 110, 45>>
      [] s = "latest/"                                   -> <<108, 97, 116, 101, 115, 116, 47>>
      [] s = "SHA512SUMS"                                -> <<83, 72, 65, 53, 49, 50, 83, 85, 77, 83>>
      [] s = "https://cloud.debian.org/images/cloud/"    -> <<104, 116, 116, 112, 115, 58, 47, 47, 99, 108, 111, 117, 100, 46, 100, 101, 98, 105, 97, 110, 46, 111, 114, 103, 47, 105, 109, 97, 103, 101, 115, 47, 99, 108, 111, 117, 100, 47>>
      [] s = "/latest/"                                  -> <<47, 108, 97, 116, 101, 115, 116, 47>>
      [] s = "x86_64"                                    -> <<120, 56, 54, 95, 54, 52>>
      [] s = "20240101-1200"                             -> <<50, 48, 50, 52, 48, 49, 48, 49, 45, 49, 50, 48, 48>>
      [] s = "20240202-0000"                             -> <<50, 48, 50, 52, 48, 50, 48, 50, 45, 48, 48, 48, 48>>
      [] s = "2024010"                                   -> <<50, 48, 50, 52, 48, 49, 48>>
      [] s = "20240101-12"                               -> <<50, 48, 50, 52, 48, 49, 48, 49, 45, 49, 50>>
      [] s = "LATEST"                                    -> <<76, 65, 84, 69, 83, 84>>
      [] s = "daily"                                     -> <<100, 97, 105, 108, 121>>
      [] s = "test"                                      -> <<116, 101, 115, 116>>
      [] s = "genericcloud"                              -> <<103, 101, 110, 101, 114, 105, 99, 99, 108, 111, 117, 100>>
      [] s = "nocloud"                                   -> <<110, 111, 99, 108, 111, 117, 100>>
      [] s = "GENERICCLOUD"                              -> <<71, 69, 78, 69, 82, 73, 67, 67, 76, 79, 85, 68>>
      [] s = "AMD64"                                     -> <<65, 77, 68, 54, 52>>
      [] s = "json"                                      -> <<106, 115, 111, 110>>
      [] s = "12"                                        -> <<49, 50>>
      [] s = "13"                                        -> <<49, 51>>
      [] s = "1a"                                        -> <<49, 97>>
      [] s = " "                                         -> <<32>>
      [] s = "  "                                        -> <<32, 32>>
      [] s = " *"                                        -> <<32, 42>>
      [] s = "/"                                         -> <<47>>
      [] s = "-"                                         -> <<45>>
      [] s = "."                                         -> <<46>>
      [] s = "AlmaLinux-"                                -> <<65, 108, 109, 97, 76, 105, 110, 117, 120, 45>>
      [] s = "SHA256 ("                                  -> <<83, 72, 65, 50, 53, 54, 32, 40>>
      [] s = ") = "                                      -> <<41, 32, 61, 32>>
      [] s = "aarch64"                                   -> <<97, 97, 114, 99, 104, 54, 52>>
      [] s = "X86_64"                                    -> <<88, 56, 54, 95, 54, 52>>
      [] s = "qcow2.CHECKSUM"                            -> <<113, 99, 111, 119, 50, 46, 67, 72, 69, 67, 75, 83, 85, 77>>
      [] s = "qcow2.sig"                                 -> <<113, 99, 111, 119, 50, 46, 115, 105, 103>>
      [] s = "sig"                                       -> <<115, 105, 103>>
      [] s = "tar.gz"                                    -> <<116, 97, 114, 46, 103, 122>>
      [] s = "checksum"                                  -> <<99, 104, 101, 99, 107, 115, 117, 109>>
      [] s = ".sig"                                      -> <<46, 115, 105, 103>>
      [] s = "9.4-20240513"                              -> <<57, 46, 52, 45, 50, 48, 50, 52, 48, 53, 49, 51>>
      [] s = "9.4"                                       -> <<57, 46, 52>>
      [] s = "9.10"                                      -> <<57, 46, 49, 48>>
      [] s = "Latest"                                    -> <<76, 97, 116, 101, 115, 116>>
      [] s = "GenericCloud-UEFI"                         -> <<71, 101, 110, 101, 114, 105, 99, 67, 108, 111, 117, 100, 45, 85, 69, 70, 73>>
      [] s = "almalinux"                                 -> <<97, 108, 109, 97, 108, 105, 110, 117, 120>>
      [] s = "100"                                       -> <<49, 48, 48>>
      [] s = "almalinux-"                                -> <<97, 108, 109, 97, 108, 105, 110, 117, 120, 45>>
      [] s = "sha256"                                    -> <<115, 104, 97, 50, 53, 54>>
      [] s = "9.4-20240101"                              -> <<57, 46, 52, 45, 50, 48, 50, 52, 48, 49, 48, 49>>
      [] s = "9.10-20240513"                             -> <<57, 46, 49, 48, 45, 50, 48, 50, 52, 48, 53, 49, 51>>
      [] s = "20240513"                                  -> <<50, 48, 50, 52, 48, 53, 49, 51>>
      [] s = "https://repo.almalinux.org/almalinux/"     -> <<104, 116, 116, 112, 115, 58, 47, 47, 114, 101, 112, 111, 46, 97, 108, 109, 97, 108, 105, 110, 117, 120, 46, 111, 114, 103, 47, 97, 108, 109, 97, 108, 105, 110, 117, 120, 47>>
      [] s = "/cloud/"                                   -> <<47, 99, 108, 111, 117, 100, 47>>
      [] s = "/images/"                                  -> <<47, 105, 109, 97, 103, 101, 115, 47>>
      [] s = "CHECKSUM"                                  -> <<67, 72, 69, 67, 75, 83, 85, 77>>
      [] s = "SHA256 (AlmaLinux-"                        -> <<83, 72, 65, 50, 53, 54, 32, 40, 65, 108, 109, 97, 76, 105, 110, 117, 120, 45>>
      [] s = "AlmaLinux-9-"                              -> <<65, 108, 109, 97, 76, 105, 110, 117, 120, 45, 57, 45>>
      [] s = "https://cloud-images.ubuntu.com/"          -> <<104, 116, 116, 112, 115, 58, 47, 47, 99, 108, 111, 117, 100, 45, 105, 109, 97, 103, 101, 115, 46, 117, 98, 117, 110, 116, 117, 46, 99, 111, 109, 47>>
      [] s = "/streams/v1/download.json"                 -> <<47, 115, 116, 114, 101, 97, 109, 115, 47, 118, 49, 47, 100, 111, 119, 110, 108, 111, 97, 100, 46, 106, 115, 111, 110>>
      [] s = "releases"                                  -> <<114, 101, 108, 101, 97, 115, 101, 115>>
      [] s = "https://mirror.example/"                   -> <<104, 116, 116, 112, 115, 58, 47, 47, 109, 105, 114, 114, 111, 114, 46, 101, 120, 97, 109, 112, 108, 101, 47>>
      [] s = "repo.json"                                 -> <<114, 101, 112, 111, 46, 106, 115, 111, 110>>
      [] s = "download.json"                             -> <<100, 111, 119, 110, 108, 111, 97, 100, 46, 106, 115, 111, 110>>
      [] s = "download"                                  -> <<100, 111, 119, 110, 108, 111, 97, 100>>
      [] s = "https://cloud-images.ubuntu.com/releases/" -> <<104, 116, 116, 112, 115, 58, 47, 47, 99, 108, 111, 117, 100, 45, 105, 109, 97, 103, 101, 115, 46, 117, 98, 117, 110, 116, 117, 46, 99, 111, 109, 47, 114, 101, 108, 101, 97, 115, 101, 115, 47>>
      [] s = "mirror/releases/"                          -> <<109, 105, 114, 114, 111, 114, 47, 114, 101, 108, 101, 97, 115, 101, 115, 47>>
      [] s = "server/disk1.img"                          -> <<115, 101, 114, 118, 101, 114, 47, 100, 105, 115, 107, 49, 46, 105, 109, 103>>
      [] s = "server/root.tar.xz"                        -> <<115, 101, 114, 118, 101, 114, 47, 114, 111, 111, 116, 46, 116, 97, 114, 46, 120, 122>>
      [] s = "https://"                                  -> <<104, 116, 116, 112, 115, 58, 47, 47>>
      [] s = "22.04"                                     -> <<50, 50, 46, 48, 52>>
      [] s = "No distro version found"                   -> <<78, 111, 32, 100, 105, 115, 116, 114, 111, 32, 118, 101, 114, 115, 105, 111, 110, 32, 102, 111, 117, 110, 100>>
      [] s = "20240202"                                  -> <<50, 48, 50, 52, 48, 50, 48, 50>>
      [] s = "ubuntu"                                    -> <<117, 98, 117, 110, 116, 117>>
      [] s = "://"                                       -> <<58, 47, 47>>
      [] s = "com.ubuntu.cloud:server:20.04:"            -> <<99, 111, 109, 46, 117, 98, 117, 110, 116, 117, 46, 99, 108, 111, 117, 100, 58, 115, 101, 114, 118, 101, 114, 58, 50, 48, 46, 48, 52, 58>>
      [] OTHER                                           -> << >>

\* <str as Ord>::cmp(a, b) == Less
StrLess(a, b) ==
    LET x == Bytes(a)
        y == Bytes(b)
    IN  \E k \in 1..Len(y) :
          /\ k - 1 <= Len(x)
          /\ \A j \in 1..(k - 1) : x[j] = y[j]
          /\ (k > Len(x) \/ x[k] < y[k])

\* slice::sort_by (a stable sort) under the strict order Less.
SortBy(s, Less(_, _)) ==
    LET n == Len(s)
        pos(i) == 1 + Cardinality({j \in 1..n :
                        Less(s[j], s[i]) \/ (~Less(s[i], s[j]) /\ j < i)})
    IN  [k \in 1..n |-> s[CHOOSE i \in 1..n : pos(i) = k]]

\* Vec<String>::sort
Sort(s) == SortBy(s, StrLess)

\* Vec::reverse
Reverse(s) == [k \in 1..Len(s) |-> s[Len(s) + 1 - k]]

\* Vec::dedup: drops every element equal to the one before it.
Dedup(s) ==
    LET keep == {i \in 1..Len(s) : i = 1 \/ s[i] # s[i - 1]}
        nth(k) == CHOOSE i \in keep : Cardinality({j \in keep : j <= i}) = k
    IN  [k \in 1..Cardinality(keep) |-> s[nth(k)]]

\* iter().map(f).collect()
Map(s, F(_)) == [k \in 1..Len(s) |-> F(s[k])]

\* iter().position(p): the first index, as an Option
Position(s, x) ==
    LET hits == {i \in 1..Len(s) : s[i] = x}
    IN  IF hits = {} THEN None ELSE Some(CHOOSE i \in hits : \A j \in hits : i <= j)

-----------------------------------------------------------------------------
(* Text.  What a provider parses (a product key, a file name, a manifest   *)
(* line, an index page) is the sequence of its UTF-8 bytes; Bytes gives     *)
(* the bytes of a literal.                                                  *)

\* <str as Ord>::cmp(x, y) == Less, on the bytes
BytesLess(x, y) ==
    \E k \in 1..Len(y) :
      /\ k - 1 <= Len(x)
      /\ \A j \in 1..(k - 1) : x[j] = y[j]
      /\ (k > Len(x) \/ x[k] < y[k])

\* The regex classes \d, [A-Z], [a-z] and [A-Za-z0-9]
IsDigit(b) == b \in 48..57

IsUpper(b) == b \in 65..90

IsLower(b) == b \in 97..122

IsAlnum(b) == IsDigit(b) \/ IsUpper(b) \/ IsLower(b)

\* [A-Fa-f0-9]
IsHex(b) == IsDigit(b) \/ b \in 65..70 \/ b \in 97..102

\* char::is_whitespace on ASCII: tab, LF, VT, FF, CR and the space
IsSpace(b) == b \in 9..13 \/ b = 32

\* u8::to_ascii_lowercase / str::to_lowercase on ASCII text
AsciiLower(b) == IF IsUpper(b) THEN b + 32 ELSE b

to_ascii_lowercase(t) == [k \in 1..Len(t) |-> AsciiLower(t[k])]

\* str::eq_ignore_ascii_case
eq_ignore_ascii_case(x, y) == to_ascii_lowercase(x) = to_ascii_lowercase(y)

\* str::trim
Trim(t) ==
    LET keep == {i \in 1..Len(t) : ~IsSpace(t[i])}
    IN  IF keep = {} THEN << >>
        ELSE LET lo == CHOOSE i \in keep : \A j \in keep : i <= j
                 hi == CHOOSE i \in keep : \A j \in keep : j <= i
             IN  SubSeq(t, lo, hi)

\* str::starts_with, str::ends_with and str::contains
StartsWith(t, p) == Len(p) <= Len(t) /\ SubSeq(t, 1, Len(p)) = p

EndsWith(t, p) == Len(p) <= Len(t) /\ SubSeq(t, Len(t) - Len(p) + 1, Len(t)) = p

Contains(t, p) == \E i \in 1..(Len(t) - Len(p) + 1) : SubSeq(t, i, i + Len(p) - 1) = p

\* The least number of a set of numbers
Least(S) == CHOOSE i \in S : \A j \in S : i <= j

Greatest(S) == CHOOSE i \in S : \A j \in S : j <= i

\* The text p stands in t at position i.
MatchAt(t, i, p) == i + Len(p) - 1 <= Len(t) /\ SubSeq(t, i, i + Len(p) - 1) = p

\* str::rsplit_once(sep): the text before and after the last sep, if any
rsplit_once(t, sep) ==
    LET at == {i \in 1..Len(t) : t[i] = sep}
    IN  IF at = {} THEN None
        ELSE LET i == CHOOSE i \in at : \A j \in at : j <= i
             IN  Some(<<SubSeq(t, 1, i - 1), SubSeq(t, i + 1, Len(t))>>)

\* str::rsplit(sep).next(): the text after the last sep, the whole text
\* when there is none
LastSegment(t, sep) ==
    LET cut == rsplit_once(t, sep)
    IN  IF cut.some THEN cut.val[2] ELSE t

\* The lengths of the digest line_re accepts: [a-f0-9]{64} or [a-f0-9]{128}
Sha256HexLen == 64

Sha512HexLen == 128

\* Digests as the manifests write them: n hex digits, in lower, upper or
\* mixed case.
HexLower(n) == [k \in 1..n |-> IF k % 2 = 0 THEN 97 ELSE 49]

HexUpper(n) == [k \in 1..n |-> IF k % 2 = 0 THEN 65 ELSE 49]

-----------------------------------------------------------------------------
(* Digests.  Sha stands for the hash function (SHA-256 / SHA-512): a fixed *)
(* function from byte strings to DigestNibbles half-bytes.  hex::encode    *)
(* writes lower-case digits; a digest string is a sequence of characters.  *)

DigestNibbles == 2

MaxBody == 1

ByteValues == {0, 1}

Bodies == UNION {[1..n -> ByteValues] : n \in 0..MaxBody}

RECURSIVE Fold(_, _)
Fold(bytes, k) ==
    IF bytes = << >> THEN k + 5
    ELSE (Fold(SubSeq(bytes, 1, Len(bytes) - 1), k) * 3 + bytes[Len(bytes)] + k + 1) % 16

Sha(bytes) == [k \in 1..DigestNibbles |-> Fold(bytes, k)]

HexDigits == <<"0", "1", "2", "3", "4", "5", "6", "7", "8", "9", "a", "b", "c", "d", "e", "f">>

hex_encode(nibbles) == [k \in 1..Len(nibbles) |-> HexDigits[nibbles[k] + 1]]

\* char::to_lowercase / to_uppercase on the characters of a digest string
LowerChar(c) ==
    CASE c = "A" -> "a" [] c = "B" -> "b" [] c = "C" -> "c"
      [] c = "D" -> "d" [] c = "E" -> "e" [] c = "F" -> "f" [] OTHER -> c

UpperChar(c) ==
    CASE c = "a" -> "A" [] c = "b" -> "B" [] c = "c" -> "C"
      [] c = "d" -> "D" [] c = "e" -> "E" [] c = "f" -> "F" [] OTHER -> c

to_lowercase(str) == [k \in 1..Len(str) |-> LowerChar(str[k])]

to_uppercase(str) == [k \in 1..Len(str) |-> UpperChar(str[k])]

-----------------------------------------------------------------------------
(* cloud::Image and the lists the provider functions return *)

ImageChecksum(kind, value) == [kind |-> kind, value |-> value]

Image(os, name, distro_version, version, a, url, checksum, image_type) ==
    [os |-> os, name |-> name, distro_version |-> distro_version, version |-> version,
     arch |-> a, url |-> url, checksum |-> checksum, image_type |-> image_type]

MaxImages == 3

\* The artifact whose digest the upstream manifests record.
PublishedBody == <<1>>

\* What upstream publishes for one provider and architecture, in upstream's
\* order: artifacts that differ in the URL alone, in the name, the type, the
\* build version or the distro version.  Debian images all carry the
\* codename as their name.  A manifest of Debian or AlmaLinux may list a
\* file a second time, under another digest: the list functions keep both
\* lines.
Published(os, names, a, kind) ==
    LET sum == Some(ImageChecksum(kind, hex_encode(Sha(PublishedBody))))
        other == Some(ImageChecksum(kind, hex_encode(Sha(<<0>>))))
        n1 == names[1]
        n2 == names[Len(names)]
    IN  << Image(os, n1, "9", "latest", a, "u1", sum, "qcow2"),
           Image(os, n1, "9", "latest", a, "u2", sum, "qcow2"),
           Image(os, n2, "9", "latest", a, "u3", sum, "qcow2"),
           Image(os, n1, "9", "latest", a, "u4", sum, "raw"),
           Image(os, n1, "9", "20240101", a, "u5", sum, "qcow2"),
           Image(os, n1, "10", "latest", a, "u6", IF os = "ubuntu" THEN None ELSE sum, "qcow2") >>
        \o (IF os = "ubuntu" THEN << >>
            ELSE << Image(os, n1, "9", "latest", a, "u1", other, "qcow2") >>)

\* The elements of s at the indices in S, in s's order.
Pick(s, S) ==
    LET nth(k) == CHOOSE i \in S : Cardinality({j \in S : j <= i}) = k
    IN  [k \in 1..Cardinality(S) |-> s[nth(k)]]

\* The lists a provider function may return: what is published of it, cut
\* to at most MaxImages images.
Lists(published) ==
    {Pick(published, S) : S \in {T \in SUBSET (1..Len(published)) : Cardinality(T) <= MaxImages}}

-----------------------------------------------------------------------------
(* helpers/mod.rs, helpers/fzf_invoker/mod.rs *)

\* What the operator does at a menu: cancels (None) or selects the item at
\* an index of the list shown.
Selections(items) == {None} \cup {Some(i) : i \in 1..Len(items)}

\* FzfInvoker::invoke: the selected item (cloned), None when cancelled.
invoke(items, sel) == IF sel.some THEN Some(items[sel.val]) ELSE None

\* A prompt that falls back to its first item when nothing is selected
choose_one_default(items, sel) ==
    IF sel.some THEN Ok(items[sel.val])
    ELSE IF items = << >> THEN Err("No selection made") ELSE Ok(items[1])

\* choose_one: Err("No selection made") when the menu returns None
choose_one(items, sel) ==
    LET choice == invoke(items, sel)
    IN  IF choice.some THEN Ok(choice.val) ELSE Err("No selection made")

arch_options_for(d) ==
    CASE d = "Ubuntu"    -> <<"amd64", "arm64", "ppc64el", "s390x">>
      [] d = "Debian"    -> <<"amd64", "arm64">>
      [] d = "AlmaLinux" -> <<"x86_64", "aarch64">>
      [] OTHER           -> <<"amd64">>

-----------------------------------------------------------------------------
(* Bookkeeping shared by the actions *)

Exit(code) == pc' = "exited" /\ exitCode' = Some(code)

\* The resolution returns Err: main's `?` returns it and the process ends
\* with the failure status.
ResolutionError(kind, attached) ==
    /\ Exit(1)
    /\ error' = Some([kind |-> kind, attached |-> attached])

\* A panic unwinds main: the process ends with status 101.
Panic ==
    /\ Exit(101)
    /\ error' = Some([kind |-> "panic", attached |-> {}])

Continue(next) == pc' = next /\ UNCHANGED <<exitCode, error>>

Prompted(step, title, items, sel) ==
    /\ prompts' = Append(prompts, [step |-> step, title |-> title, items |-> items,
                                   cands |-> images, sel |-> sel])
    /\ cancelledAt' = IF sel.some THEN cancelledAt ELSE Len(prompts) + 1

Requested(reqs) == netlog' = netlog \o reqs

Request(kind, by, a) == [kind |-> kind, by |-> by, arch |-> a]

Picked(key, value) == picks' = (key :> value) @@ picks

\* One narrowing step of a wizard: the prompt, the filter on the selection
\* and the ensure!() on what is left.
Narrow(step, title, items, sel, Kept(_), Attached(_), next) ==
    LET r == choose_one(items, sel)
    IN  /\ Prompted(step, title, items, sel)
        /\ IF ~r.ok
           THEN /\ ResolutionError("cancel", {})
                /\ UNCHANGED <<images, picks>>
           ELSE /\ images' = Kept(r.val)
                /\ Picked(step, r.val)
                /\ IF Kept(r.val) = << >>
                   THEN ResolutionError("empty", Attached(r.val))
                   ELSE Continue(next)
        /\ UNCHANGED <<regVars, dvVars, libVars, distro, arch, codename, hint, major, menu, listed, listCalls,
                       netlog, selected, outFile, dlStatus, dlResult>>

\* The last step of a wizard: the artifact prompt and the look-up of the
\* chosen label.
Artifact(labels, sel) ==
    LET r == choose_one(labels, sel)
    IN  /\ Prompted("artifact", "Select Image Artifact", labels, sel)
        /\ IF ~r.ok
           THEN /\ ResolutionError("cancel", {})
                /\ UNCHANGED selected
           ELSE LET idx == Position(labels, r.val)
                IN  IF ~idx.some
                    THEN Panic /\ UNCHANGED selected
                    ELSE /\ selected' = Some(images[idx.val])
                         /\ Continue("selected")
        /\ UNCHANGED <<regVars, dvVars, libVars, wizVars, netlog, outFile, dlStatus, dlResult>>

\* Menu::new() or select() fails: FzfInvoker ends the process with status 1.
PromptPcs == {"distro", "u_arch", "u_dv", "u_ver", "u_type", "u_label",
              "d_codename", "d_arch", "d_dv", "d_ver", "d_type", "d_label",
              "a_arch", "a_major", "a_dv", "a_ver", "a_variant", "a_format", "a_label"}

MenuFailure ==
    /\ pc \in PromptPcs
    /\ Exit(1)
    /\ error' = Some([kind |-> "menu", attached |-> {}])
    /\ UNCHANGED <<regVars, dvVars, libVars, wizVars, logVars, selected, outFile, dlStatus, dlResult>>

-----------------------------------------------------------------------------
(* main.rs *)

\* main: repos::init_from_file(&path)?
MainInit ==
    /\ pc = "start"
    /\ \E content \in FileContents :
          LET r == init_from_file(CACHE, content)
          IN  /\ RegistryCall(r, Offered(content))
              /\ IF r.res.ok
                 THEN Continue("distro")
                 ELSE ResolutionError("config", {})
    /\ UNCHANGED <<dvVars, libVars, wizVars, logVars, selected, outFile, dlStatus, dlResult>>

\* prompt_and_select: choose_one("Select Distro", ...) and the match on it
SelectDistro ==
    /\ pc = "distro"
    /\ LET items == <<"Ubuntu", "Debian", "AlmaLinux">>
       IN  \E sel \in Selections(items) :
             LET r == choose_one(items, sel)
             IN  /\ Prompted("distro", "Select Distro", items, sel)
                 /\ IF ~r.ok
                    THEN ResolutionError("cancel", {}) /\ UNCHANGED distro
                    ELSE /\ distro' = Some(r.val)
                         /\ Continue(CASE r.val = "Ubuntu" -> "u_arch"
                                       [] r.val = "Debian" -> "d_codenames"
                                       [] OTHER            -> "a_arch")
    /\ UNCHANGED <<regVars, dvVars, libVars, arch, codename, hint, major, menu, images, picks, listed, listCalls,
                   netlog, selected, outFile, dlStatus, dlResult>>

\* The architecture prompt that opens each wizard.
SelectArchitecture(d, next) ==
    LET items == arch_options_for(d)
    IN  \E sel \in Selections(items) :
          LET r == choose_one(items, sel)
          IN  /\ Prompted("arch", "Select Architecture", items, sel)
              /\ IF ~r.ok
                 THEN ResolutionError("cancel", {}) /\ UNCHANGED arch
                 ELSE arch' = Some(r.val) /\ Continue(next)
              /\ UNCHANGED <<regVars, dvVars, libVars, distro, codename, hint, major, menu, images, picks,
                             listed, listCalls, netlog, selected, outFile, dlStatus, dlResult>>

\* What a provider function hands back to its wizard: Err, or the list,
\* which the wizard's first ensure!() wants non-empty.
Listed(res, attached, next) ==
    IF ~res.ok
    THEN ResolutionError(res.err, {}) /\ UNCHANGED <<images, listed>>
    ELSE /\ images' = res.val
         /\ listed' = Some(res.val)
         /\ IF res.val = << >>
            THEN ResolutionError("empty", attached)
            ELSE Continue(next)

-----------------------------------------------------------------------------
(* repositories/ubuntu/mod.rs *)

format_image_label(image) == <<image.name, image.arch, image.url>>

ubuntu_distro_versions(imgs) ==
    Dedup(Reverse(Sort(Map(imgs, LAMBDA i : i.distro_version))))

ubuntu_retain_distro_version(imgs, v) == SelectSeq(imgs, LAMBDA i : i.distro_version = v)

\* Options taken from the first candidate instead of the whole list
ubuntu_image_versions_first(imgs) == <<imgs[1].version>>

ubuntu_image_versions(imgs) ==
    Dedup(Reverse(Sort(Map(imgs, LAMBDA i : i.version))))

\* A version filter run on the provider's list instead of the working list
ubuntu_retain_version_relisted(imgs, v) == SelectSeq(listed.val, LAMBDA i : i.version = v)

ubuntu_retain_version(imgs, v) == SelectSeq(imgs, LAMBDA i : i.version = v)

\* The image types in descending order
ubuntu_image_types_descending(imgs) == Dedup(Reverse(Sort(Map(imgs, LAMBDA i : i.image_type))))

ubuntu_image_types(imgs) == Dedup(Sort(Map(imgs, LAMBDA i : i.image_type)))

ubuntu_retain_image_type(imgs, v) == SelectSeq(imgs, LAMBDA i : i.image_type = v)

\* A list always asked for amd64
ubuntu_list_arch_default(a) == "amd64"

\* The architecture pick_ubuntu hands to ubuntu_list.
ubuntu_list_arch(a) == a

\* What the catalog document (fetched, or read from the cached copy) is to
\* ubuntu_list(track, a): undecodable, a catalog with a product of the
\* architecture that has no OS name, or a catalog that flattens to a list.
UbuntuDocs(a) ==
    {[kind |-> "undecodable"], [kind |-> "no_os"]}
    \cup {[kind |-> "catalog", images |-> l] :
              l \in Lists(Published("ubuntu", <<"jammy", "noble">>, a, "sha256"))}

\* repositories::by_name("ubuntu") ... .get("base_for_paths"): every miss panics
UbuntuConfigured ==
    LET repo == by_name(CACHE, "ubuntu")
    IN  /\ repo.ok
        /\ repo.val.some
        /\ repo.val.val.other_parameters.some
        /\ "base_for_paths" \in DOMAIN repo.val.val.other_parameters.val

UbuntuArch ==
    /\ pc = "u_arch"
    /\ SelectArchitecture("Ubuntu", "u_list")

\* pick_ubuntu: ubuntu_list(track, &arch, false).await and the first ensure!()
UbuntuList ==
    /\ pc = "u_list"
    /\ listCalls' = listCalls + 1
    /\ IF ~UbuntuConfigured
       THEN Panic /\ UNCHANGED <<images, listed, netlog>>
       ELSE LET a == ubuntu_list_arch(arch.val)
            IN  \E cached \in BOOLEAN, fetched \in BOOLEAN, doc \in UbuntuDocs(a) :
                  /\ Requested(IF cached THEN << >>
                               ELSE <<Request("catalog", "ubuntu_list", Some(a))>>)
                  /\ IF ~cached /\ ~fetched
                     THEN Panic /\ UNCHANGED <<images, listed>>
                     ELSE IF doc.kind = "undecodable"
                     THEN ResolutionError("parse", {}) /\ UNCHANGED <<images, listed>>
                     ELSE IF doc.kind = "no_os"
                     THEN Panic /\ UNCHANGED <<images, listed>>
                     ELSE Listed(Ok(doc.images), {<<"arch", arch.val>>}, "u_dv")
    /\ UNCHANGED <<regVars, dvVars, libVars, distro, arch, codename, hint, major, menu, picks,
                   prompts, cancelledAt, selected, outFile, dlStatus, dlResult>>

UbuntuDistroVersion ==
    /\ pc = "u_dv"
    /\ LET items == ubuntu_distro_versions(images)
       IN  \E sel \in Selections(items) :
             Narrow("distro_version", "Select Distro Version", items, sel,
                    LAMBDA v : ubuntu_retain_distro_version(images, v),
                    LAMBDA v : {<<"distro_version", v>>},
                    "u_ver")

UbuntuImageVersion ==
    /\ pc = "u_ver"
    /\ LET items == ubuntu_image_versions(images)
       IN  \E sel \in Selections(items) :
             Narrow("version", "Select Image Version", items, sel,
                    LAMBDA v : ubuntu_retain_version(images, v),
                    LAMBDA v : {<<"distro_version", picks["distro_version"]>>, <<"version", v>>},
                    "u_type")

UbuntuImageType ==
    /\ pc = "u_type"
    /\ LET items == ubuntu_image_types(images)
       IN  \E sel \in Selections(items) :
             Narrow("image_type", "Select image type", items, sel,
                    LAMBDA v : ubuntu_retain_image_type(images, v),
                    LAMBDA v : {<<"distro_version", picks["distro_version"]>>,
                                <<"version", picks["version"]>>, <<"image_type", v>>},
                    "u_label")

UbuntuArtifact ==
    /\ pc = "u_label"
    /\ LET labels == Map(images, format_image_label)
       IN  \E sel \in Selections(labels) : Artifact(labels, sel)

-----------------------------------------------------------------------------
(* repositories/debian/mod.rs *)

DEFAULT_CODENAMES == <<"stable", "bookworm", "trixie">>

\* repository_template: the debian entry and its URL cut at the first "{}"
repository_template ==
    LET repo == by_name(CACHE, "debian")
    IN  IF ~repo.ok THEN Err("config")
        ELSE IF ~repo.val.some THEN Err("config")
        ELSE LET at == Position(repo.val.val.url, "{}")
             IN  IF ~at.some THEN Err("config")
                 ELSE Ok(<<SubSeq(repo.val.val.url, 1, at.val - 1),
                           SubSeq(repo.val.val.url, at.val + 1, Len(repo.val.val.url))>>)

repository_root == IF repository_template.ok THEN Ok(repository_template.val[1]) ELSE Err("config")

repository_urls(c) ==
    IF repository_template.ok
    THEN Ok(repository_template.val[1] \o <<c>> \o repository_template.val[2])
    ELSE Err("config")

\* The codename listing as upstream may answer it: the request fails (or
\* lists no directory), or it lists these directories.
CodenameListings == {<< >>, <<"trixie", "bookworm", "trixie">>}

\* The majors the first "debian-<major>-" of a latest/SHA512SUMS may name.
DetectedMajors == {None, Some("9")}

\* available_codenames, given the directory names of the listing
available_codenames(listing) ==
    IF ~repository_root.ok THEN Err("config")
    ELSE LET names == Dedup(Sort(listing))
         IN  IF names = << >> THEN Ok(DEFAULT_CODENAMES) ELSE Ok(names)

\* str::parse::<u32> of a major: decimal digits only.  Every number of up
\* to nine digits fits a u32; the majors of the model have one or two.
RECURSIVE DigitsValue(_)
DigitsValue(bytes) ==
    IF bytes = << >> THEN 0
    ELSE DigitsValue(SubSeq(bytes, 1, Len(bytes) - 1)) * 10 + (bytes[Len(bytes)] - 48)

parse_u32(s) ==
    IF Bytes(s) # << >> /\ (\A k \in 1..Len(Bytes(s)) : Bytes(s)[k] \in 48..57)
       /\ Len(Bytes(s)) <= 9
    THEN Ok(DigitsValue(Bytes(s)))
    ELSE Err("parse")

\* The comparator of options.sort_by in codename_options_with_versions
CodenameOptionLess(a, b) ==
    IF a.major_version.some /\ b.major_version.some
    THEN LET va == parse_u32(a.major_version.val)
             vb == parse_u32(b.major_version.val)
         IN  IF va.ok /\ vb.ok THEN vb.val < va.val
             ELSE StrLess(b.major_version.val, a.major_version.val)
    ELSE IF a.major_version.some THEN TRUE
    ELSE IF b.major_version.some THEN FALSE
    ELSE StrLess(a.codename, b.codename)

CodenameOption(c, m) ==
    [codename |-> c,
     label |-> IF m.some THEN <<m.val, " (", c, ")">> ELSE <<c>>,
     major_version |-> m]

\* codename_options_with_versions, given the listing and what
\* detect_major_version finds for each codename
codename_options_with_versions(listing, detect) ==
    LET dynamic == available_codenames(listing)
        base == IF ~dynamic.ok \/ dynamic.val = << >> THEN DEFAULT_CODENAMES ELSE dynamic.val
    IN  SortBy([k \in 1..Len(base) |->
                   CodenameOption(base[k], IF repository_urls(base[k]).ok
                                           THEN detect[base[k]] ELSE None)],
               CodenameOptionLess)

\* The requests codename_options_with_versions issues: the listing, then
\* one latest/SHA512SUMS per codename.
CodenameRequests(listing) ==
    IF ~repository_root.ok THEN << >>
    ELSE LET base == available_codenames(listing).val
         IN  <<Request("codenames", "available_codenames", None)>>
             \o [k \in 1..Len(base) |-> Request("sums", "detect_major_version", None)]

\* prompt_for_codename up to its menu
DebianCodenames ==
    /\ pc = "d_codenames"
    /\ \E listing \in CodenameListings :
          \E detect \in [{"stable", "bookworm", "trixie"} -> DetectedMajors] :
             /\ menu' = codename_options_with_versions(listing, detect)
             /\ Requested(CodenameRequests(listing))
    /\ Continue("d_codename")
    /\ UNCHANGED <<regVars, dvVars, libVars, distro, arch, codename, hint, major, images, picks, listed, listCalls,
                   prompts, cancelledAt, selected, outFile, dlStatus, dlResult>>

\* prompt_for_codename: the menu and the look-up of the chosen label
DebianCodename ==
    /\ pc = "d_codename"
    /\ LET labels == Map(menu, LAMBDA o : o.label)
       IN  \E sel \in Selections(labels) :
             LET r == choose_one(labels, sel)
             IN  /\ Prompted("codename", "Select Debian Codename", labels, sel)
                 /\ IF ~r.ok
                    THEN ResolutionError("cancel", {}) /\ UNCHANGED <<codename, hint, menu>>
                    ELSE LET at == Position(labels, r.val)
                         IN  /\ codename' = Some(menu[at.val].codename)
                             /\ hint' = menu[at.val].major_version
                             /\ menu' = << >>
                             /\ Continue("d_arch")
    /\ UNCHANGED <<regVars, dvVars, libVars, distro, arch, major, images, picks, listed, listCalls, netlog,
                   selected, outFile, dlStatus, dlResult>>

DebianArch ==
    /\ pc = "d_arch"
    /\ SelectArchitecture("Debian", "d_list")

\* debian_list: Debian calls x86_64 amd64
debian_want_arch(a) == IF a = "x86_64" THEN "amd64" ELSE a

debian_retain_distro_version(imgs, v) == SelectSeq(imgs, LAMBDA i : i.distro_version = v)

debian_distro_versions(imgs) ==
    Dedup(Reverse(Sort(Map(imgs, LAMBDA i : i.distro_version))))

debian_image_versions(imgs) ==
    Dedup(Reverse(Sort(Map(imgs, LAMBDA i : i.version))))

\* A version step that keeps every candidate
debian_retain_version_all(imgs, v) == imgs

debian_retain_version(imgs, v) == SelectSeq(imgs, LAMBDA i : i.version = v)

debian_image_types(imgs) == Dedup(Sort(Map(imgs, LAMBDA i : i.image_type)))

debian_retain_image_type(imgs, v) == SelectSeq(imgs, LAMBDA i : i.image_type = v)

debian_labelize(i) == <<i.name, i.image_type, i.version, i.arch, i.url>>

\* What debian_list(codename, a) returns: Err when the index cannot be
\* fetched, else the images of the manifests it could read.
DebianAnswers(c, a) ==
    {Err("network")}
    \cup {Ok(l) : l \in Lists(Published("debian", <<c>>, debian_want_arch(a), "sha512"))}

\* pick_debian_with_hint: debian_list(codename, &arch, false).await, the
\* first ensure!() and, with a hint, the filter on it
DebianList ==
    /\ pc = "d_list"
    /\ listCalls' = listCalls + 1
    /\ IF ~repository_urls(codename.val).ok
       THEN /\ ResolutionError("config", {})
            /\ UNCHANGED <<images, listed, netlog, picks>>
       ELSE \E res \in DebianAnswers(codename.val, arch.val) :
              /\ Requested(<<Request("index", "debian_list", arch)>>)
              /\ IF ~res.ok \/ ~hint.some
                 THEN /\ Listed(res, {<<"codename", codename.val>>, <<"arch", arch.val>>}, "d_dv")
                      /\ UNCHANGED picks
                 ELSE IF res.val = << >>
                 THEN /\ Listed(res, {<<"codename", codename.val>>, <<"arch", arch.val>>}, "d_dv")
                      /\ UNCHANGED picks
                 ELSE /\ listed' = Some(res.val)
                      /\ images' = debian_retain_distro_version(res.val, hint.val)
                      /\ Picked("distro_version", hint.val)
                      /\ IF debian_retain_distro_version(res.val, hint.val) = << >>
                         THEN ResolutionError("empty", {<<"distro_version", hint.val>>})
                         ELSE Continue("d_ver")
    /\ UNCHANGED <<regVars, dvVars, libVars, distro, arch, codename, hint, major, menu,
                   prompts, cancelledAt, selected, outFile, dlStatus, dlResult>>

DebianDistroVersion ==
    /\ pc = "d_dv"
    /\ LET items == debian_distro_versions(images)
       IN  \E sel \in Selections(items) :
             Narrow("distro_version", "Select Distro Version", items, sel,
                    LAMBDA v : debian_retain_distro_version(images, v),
                    LAMBDA v : {<<"distro_version", v>>},
                    "d_ver")

DebianImageVersion ==
    /\ pc = "d_ver"
    /\ LET items == debian_image_versions(images)
       IN  \E sel \in Selections(items) :
             Narrow("version", "Select Image Version", items, sel,
                    LAMBDA v : debian_retain_version(images, v),
                    LAMBDA v : {<<"distro_version", picks["distro_version"]>>, <<"version", v>>},
                    "d_type")

DebianImageType ==
    /\ pc = "d_type"
    /\ LET items == debian_image_types(images)
       IN  \E sel \in Selections(items) :
             Narrow("image_type", "Select Disk Image Type", items, sel,
                    LAMBDA v : debian_retain_image_type(images, v),
                    LAMBDA v : {<<"distro_version", picks["distro_version"]>>,
                                <<"version", picks["version"]>>, <<"image_type", v>>},
                    "d_label")

DebianArtifact ==
    /\ pc = "d_label"
    /\ LET labels == Map(images, debian_labelize)
       IN  \E sel \in Selections(labels) : Artifact(labels, sel)

-----------------------------------------------------------------------------
(* repositories/almalinux/mod.rs *)

DEFAULT_MAJORS == <<"9", "8">>

\* repository_config: the almalinux entry of the registry
repository_config ==
    LET repo == by_name(CACHE, "almalinux")
    IN  IF ~repo.ok THEN Err("config")
        ELSE IF ~repo.val.some THEN Err("config")
        ELSE Ok(repo.val.val)

\* repository_base_url: the template needs its two "{}" placeholders
repository_base_url(m, a) ==
    IF ~repository_config.ok THEN Err("config")
    ELSE LET template == repository_config.val.url
             first == Position(template, "{}")
         IN  IF ~first.some THEN Err("config")
             ELSE LET replaced_major == SubSeq(template, 1, first.val - 1) \o <<m>>
                                        \o SubSeq(template, first.val + 1, Len(template))
                      second == Position(replaced_major, "{}")
                  IN  IF ~second.some THEN Err("config")
                      ELSE Ok(SubSeq(replaced_major, 1, second.val - 1) \o <<a>>
                              \o SubSeq(replaced_major, second.val + 1, Len(replaced_major)))

majors_root_url ==
    IF ~repository_config.ok THEN Err("config")
    ELSE LET repo == repository_config.val
         IN  IF repo.other_parameters.some /\ "majors_root" \in DOMAIN repo.other_parameters.val
             THEN Ok(repo.other_parameters.val["majors_root"])
             ELSE LET at == Position(repo.url, "{}")
                  IN  IF at.some THEN Ok(SubSeq(repo.url, 1, at.val - 1)) ELSE Err("config")

\* The majors-root listing as upstream may answer it: the request fails,
\* or the index links these one- or two-digit directories.
MajorListings == {Err("network"), Ok(<< >>), Ok(<<"9", "10", "9">>)}

\* fetch_major_versions, given the answer to its request
fetch_major_versions(answer) ==
    IF ~majors_root_url.ok THEN Err("config")
    ELSE IF ~answer.ok THEN Err("network")
    ELSE Ok(Reverse(Dedup(Sort(answer.val))))

\* available_majors without its fallback
available_majors_unguarded(answer) == fetch_major_versions(answer)

available_majors(answer) ==
    LET list == fetch_major_versions(answer)
    IN  IF list.ok /\ list.val # << >> THEN Ok(list.val) ELSE Ok(DEFAULT_MAJORS)

\* The comparator of images.sort_by in almalinux_list
AlmaImageLess(a, b) ==
    IF a.distro_version # b.distro_version THEN StrLess(b.distro_version, a.distro_version)
    ELSE IF a.version # b.version THEN StrLess(b.version, a.version)
    ELSE IF a.name # b.name THEN StrLess(a.name, b.name)
    ELSE StrLess(a.image_type, b.image_type)

\* What almalinux_list(major, a) returns: Err when the CHECKSUM manifest cannot
\* be fetched, else the images of its lines, sorted.
AlmaAnswers(a) ==
    {Err("network")}
    \cup {Ok(SortBy(l, AlmaImageLess)) :
             l \in Lists(Published("almalinux", <<"GenericCloud", "OpenNebula">>, a, "sha256"))}

alma_distro_versions(imgs) ==
    Dedup(Reverse(Sort(Map(imgs, LAMBDA i : i.distro_version))))

alma_retain_distro_version(imgs, v) == SelectSeq(imgs, LAMBDA i : i.distro_version = v)

alma_image_versions(imgs) ==
    Dedup(Reverse(Sort(Map(imgs, LAMBDA i : i.version))))

alma_retain_version(imgs, v) == SelectSeq(imgs, LAMBDA i : i.version = v)

alma_variants(imgs) == Dedup(Sort(Map(imgs, LAMBDA i : i.name)))

alma_retain_variant(imgs, v) == SelectSeq(imgs, LAMBDA i : i.name = v)

alma_formats(imgs) == Dedup(Sort(Map(imgs, LAMBDA i : i.image_type)))

\* A format step that keeps every candidate
alma_retain_format_all(imgs, v) == imgs

alma_retain_format(imgs, v) == SelectSeq(imgs, LAMBDA i : i.image_type = v)

alma_labelize(i) == <<i.name, i.image_type, i.version, i.arch, i.url>>

AlmaArch ==
    /\ pc = "a_arch"
    /\ SelectArchitecture("AlmaLinux", "a_majors")

\* pick_almalinux: available_majors().await and the ensure!() on it
AlmaMajors ==
    /\ pc = "a_majors"
    /\ \E answer \in MajorListings :
          /\ menu' = available_majors(answer).val
          /\ Requested(IF majors_root_url.ok
                       THEN <<Request("majors", "fetch_major_versions", None)>> ELSE << >>)
          /\ IF available_majors(answer).val = << >>
             THEN ResolutionError("empty", {})
             ELSE Continue("a_major")
    /\ UNCHANGED <<regVars, dvVars, libVars, distro, arch, codename, hint, major, images, picks, listed, listCalls,
                   prompts, cancelledAt, selected, outFile, dlStatus, dlResult>>

AlmaMajor ==
    /\ pc = "a_major"
    /\ \E sel \in Selections(menu) :
          LET r == choose_one(menu, sel)
          IN  /\ Prompted("major", "Select AlmaLinux Major Version", menu, sel)
              /\ IF ~r.ok
                 THEN ResolutionError("cancel", {}) /\ UNCHANGED <<major, menu>>
                 ELSE /\ major' = Some(r.val)
                      /\ menu' = << >>
                      /\ Continue("a_list")
    /\ UNCHANGED <<regVars, dvVars, libVars, distro, arch, codename, hint, images, picks, listed, listCalls, netlog,
                   selected, outFile, dlStatus, dlResult>>

\* pick_almalinux: almalinux_list(&major, &arch).await? and the first ensure!()
AlmaList ==
    /\ pc = "a_list"
    /\ listCalls' = listCalls + 1
    /\ IF ~repository_base_url(major.val, arch.val).ok
       THEN /\ ResolutionError("config", {})
            /\ UNCHANGED <<images, listed, netlog>>
       ELSE \E res \in AlmaAnswers(arch.val) :
              /\ Requested(<<Request("checksum", "almalinux_list", arch)>>)
              /\ Listed(res, {<<"major", major.val>>, <<"arch", arch.val>>}, "a_dv")
    /\ UNCHANGED <<regVars, dvVars, libVars, distro, arch, codename, hint, major, menu, picks,
                   prompts, cancelledAt, selected, outFile, dlStatus, dlResult>>

AlmaDistroVersion ==
    /\ pc = "a_dv"
    /\ LET items == alma_distro_versions(images)
       IN  \E sel \in Selections(items) :
             Narrow("distro_version", "Select Distro Version", items, sel,
                    LAMBDA v : alma_retain_distro_version(images, v),
                    LAMBDA v : {<<"distro_version", v>>},
                    "a_ver")

AlmaImageVersion ==
    /\ pc = "a_ver"
    /\ LET items == alma_image_versions(images)
       IN  \E sel \in Selections(items) :
             Narrow("version", "Select Image Version", items, sel,
                    LAMBDA v : alma_retain_version(images, v),
                    LAMBDA v : {<<"distro_version", picks["distro_version"]>>, <<"version", v>>},
                    "a_variant")

AlmaVariant ==
    /\ pc = "a_variant"
    /\ LET items == alma_variants(images)
       IN  \E sel \in Selections(items) :
             Narrow("variant", "Select Image Variant", items, sel,
                    LAMBDA v : alma_retain_variant(images, v),
                    LAMBDA v : {<<"distro_version", picks["distro_version"]>>,
                                <<"version", picks["version"]>>, <<"variant", v>>},
                    "a_format")

AlmaFormat ==
    /\ pc = "a_format"
    /\ LET items == alma_formats(images)
       IN  \E sel \in Selections(items) :
             Narrow("image_type", "Select Image Format", items, sel,
                    LAMBDA v : alma_retain_format(images, v),
                    LAMBDA v : {<<"distro_version", picks["distro_version"]>>,
                                <<"version", picks["version"]>>,
                                <<"variant", picks["variant"]>>, <<"image_type", v>>},
                    "a_label")

AlmaArtifact ==
    /\ pc = "a_label"
    /\ LET labels == Map(images, alma_labelize)
       IN  \E sel \in Selections(labels) : Artifact(labels, sel)

-----------------------------------------------------------------------------
(* helpers/image_resolver/mod.rs and the end of main *)

\* main prints download_file's Ok or Err and returns Ok(()).
MainReport(res) ==
    /\ dlResult' = Some(res)
    /\ Exit(0)

\* download_file up to File::create: the request, the content length, the
\* output path and the creation of the output file.
DownloadSend ==
    /\ pc = "selected"
    /\ Requested(<<Request("download", "download_file", None)>>)
    /\ \E status \in {"200", "404"},
          step \in {"send", "content_length", "current_dir", "create", "created"} :
          IF step = "send"
          THEN MainReport(Err("Failed to GET")) /\ UNCHANGED <<outFile, dlStatus>>
          ELSE /\ dlStatus' = Some(status)
               /\ IF step = "created"
                  THEN /\ outFile' = Some(<< >>)
                       /\ pc' = "dl_chunk"
                       /\ UNCHANGED <<exitCode, dlResult>>
                  ELSE MainReport(Err(step)) /\ UNCHANGED outFile
    /\ UNCHANGED <<regVars, dvVars, libVars, wizVars, prompts, cancelledAt, error, selected>>

\* One turn of the loop: res.chunk() yields a chunk, written to the file.
DownloadChunk ==
    /\ pc = "dl_chunk"
    /\ Len(outFile.val) < MaxBody
    /\ \E b \in ByteValues, written \in BOOLEAN :
          IF written
          THEN /\ outFile' = Some(Append(outFile.val, b))
               /\ UNCHANGED <<pc, exitCode, dlResult>>
          ELSE MainReport(Err("Error while writing to file")) /\ UNCHANGED outFile
    /\ UNCHANGED <<regVars, dvVars, libVars, wizVars, logVars, error, selected, dlStatus>>

\* res.chunk() yields None: the body is complete.
DownloadFinish ==
    /\ pc = "dl_chunk"
    /\ MainReport(Ok("Downloaded"))
    /\ UNCHANGED <<regVars, dvVars, libVars, wizVars, logVars, error, selected, outFile, dlStatus>>

\* res.chunk() fails in the middle of the body.
DownloadAbort ==
    /\ pc = "dl_chunk"
    /\ MainReport(Err("Error while downloading file"))
    /\ UNCHANGED <<regVars, dvVars, libVars, wizVars, logVars, error, selected, outFile, dlStatus>>

-----------------------------------------------------------------------------
(* debian/mod.rs: download_and_verify *)

MaxVerifyBody == 3

VerifyBodies == UNION {[1..n -> ByteValues] : n \in 0..MaxVerifyBody}

\* The expected digests an ImageAsset may carry: the digest of some body as
\* the manifest wrote it, in lower or in upper case.
ExpectedDigests ==
    {hex_encode(Sha(b)) : b \in VerifyBodies}
    \cup {to_uppercase(hex_encode(Sha(b))) : b \in VerifyBodies}

\* A comparison that takes the expected digest as written
DigestMatchesExact(got, expected) == got = expected

\* The comparison of download_and_verify: got != asset.sha512.to_lowercase()
DigestMatches(got, expected) == got = to_lowercase(expected)

\* download_and_verify is called with an asset.
VerifyCall ==
    /\ dvPc = "idle"
    /\ \E expected \in ExpectedDigests : dvAsset' = Some([url |-> "u1", sha512 |-> expected])
    /\ dvPc' = "fetching"
    /\ UNCHANGED <<dvBytes, dvFile, dvResult, regVars, flowVars, libVars>>

\* client.get(url).send().await?.error_for_status()?.bytes().await? fails.
VerifyFetchFails ==
    /\ dvPc = "fetching"
    /\ \E e \in {"send", "status", "body"} : dvResult' = Some(Err(e))
    /\ dvPc' = "returned"
    /\ UNCHANGED <<dvAsset, dvBytes, dvFile, regVars, flowVars, libVars>>

\* The body arrives: the digest is compared and, on a match, the bytes are
\* written; write(..).unwrap() panics when the write fails.
VerifyFetched ==
    /\ dvPc = "fetching"
    /\ \E bytes \in VerifyBodies, written \in BOOLEAN :
          LET got == hex_encode(Sha(bytes))
          IN  /\ dvBytes' = Some(bytes)
              /\ IF ~DigestMatches(got, dvAsset.val.sha512)
                 THEN /\ dvResult' = Some(Err("mismatch"))
                      /\ dvPc' = "returned"
                      /\ UNCHANGED dvFile
                 ELSE IF written
                 THEN /\ dvFile' = Some(bytes)
                      /\ dvResult' = Some(Ok("unit"))
                      /\ dvPc' = "returned"
                 ELSE /\ dvPc' = "panicked"
                      /\ UNCHANGED <<dvFile, dvResult>>
    /\ UNCHANGED <<dvAsset, regVars, flowVars, libVars>>

InitVerify ==
    /\ dvPc = "idle"
    /\ dvAsset = None
    /\ dvBytes = None
    /\ dvFile = None
    /\ dvResult = None

NextVerify ==
    \/ VerifyCall
    \/ VerifyFetchFails
    \/ VerifyFetched

-----------------------------------------------------------------------------

-----------------------------------------------------------------------------
(* The outcome of a provider library call as `call` records it: the value  *)
(* returned, or the panic that unwound it.                                  *)

Panicked == [ok |-> FALSE, err |-> "panic"]

\* Evaluation in sequence: the first failure ends it, results are appended.
Then(r1, r2) == IF ~r1.ok THEN r1 ELSE IF ~r2.ok THEN r2 ELSE Ok(r1.val \o r2.val)

\* What a sequence of steps, each with a set of possible outcomes, can give.
RECURSIVE ThenAll(_)
ThenAll(steps) ==
    IF steps = << >> THEN {Ok(<< >>)}
    ELSE {Then(a, b) : a \in steps[1], b \in ThenAll(Tail(steps))}

\* HashMap::iter visits the keys in an arbitrary order: every enumeration
\* of the key set is possible.
RECURSIVE Orders(_)
Orders(S) ==
    IF S = {} THEN {<< >>}
    ELSE UNION {{<<x>> \o r : r \in Orders(S \ {x})} : x \in S}

\* The subsets of S of at most n elements
RECURSIVE SubsetsUpTo(_, _)
SubsetsUpTo(S, n) ==
    IF n = 0 THEN {{}}
    ELSE LET smaller == SubsetsUpTo(S, n - 1)
         IN  smaller \cup {X \cup {x} : X \in smaller, x \in S}

\* A call of fn about to be made, and its return
Calling(fn, args) == Some([fn |-> fn, args |-> args])

Pending(fn) == call.some /\ call.val.fn = fn /\ ~ret.some

Returns(out, requests) == ret' = Some(out) /\ asked' = requests /\ UNCHANGED <<call, cacheVars>>

\* The temp folder before any catalogue was cached
InitCache == tmpDir = << >> /\ resolutions = << >>

InitLibrary == call = None /\ ret = None /\ asked = << >> /\ InitCache

-----------------------------------------------------------------------------
(* cloud/{catalog,product,version,item}.rs, cloud/image.rs and the loop of *)
(* ubuntu_list over the decoded Catalog                                     *)

\* cloud::Item, cloud::Version, cloud::Product and cloud::Catalog as serde
\* decodes them: every Option field may be absent.
Item(path, sha256) == [path |-> path, sha256 |-> sha256]

Version(items) == [items |-> items]

Product(a, os, release, distro_version, versions) ==
    [arch |-> a, os |-> os, release |-> release, distro_version |-> distro_version,
     versions |-> versions]

Catalog(products) == [products |-> products]

\* Where the scheme of a URL ends: the ':' after a letter and a run of
\* letters, digits, '+', '-' and '.', or 0 when the text has no scheme
scheme_end(t) ==
    IF t = << >> \/ ~(IsUpper(t[1]) \/ IsLower(t[1])) THEN 0
    ELSE IF \A e \in 1..Len(t) : t[e] # 58 THEN 0
    ELSE IF \A k \in 1..(Least({e \in 1..Len(t) : t[e] = 58}) - 1) : IsAlnum(t[k]) \/ t[k] \in {43, 45, 46}
    THEN Least({e \in 1..Len(t) : t[e] = 58})
    ELSE 0

\* Where the host of an http(s) URL ends: before the first '/' after "://"
host_end(t, e) == Least({k \in (e + 3)..(Len(t) + 1) : k = Len(t) + 1 \/ t[k] = 47}) - 1

\* Url::parse for the URLs of a mirror: a text without scheme is relative
\* and has no base, an http(s) URL needs a host
url_parse_at(t, e) ==
    IF e = 0 THEN Err("RelativeUrlWithoutBase")
    ELSE IF ~MatchAt(t, e, Bytes("://")) THEN Ok(t)
    ELSE IF host_end(t, e) < e + 3 THEN Err("EmptyHost")
    ELSE Ok(t)

url_parse(t) == url_parse_at(t, scheme_end(t))

\* The base up to the last '/' of its path
url_directory(base, h) ==
    IF h = Len(base) THEN base \o Bytes("/")
    ELSE SubSeq(base, 1, Greatest({k \in (h + 1)..Len(base) : base[k] = 47}))

\* Url::join of a reference without dot segments: a reference with a scheme
\* stands alone, one that starts with '/' replaces the path, any other
\* replaces the last segment of the path
url_join_at(base, h, relative_path) ==
    IF scheme_end(relative_path) > 0 THEN url_parse(relative_path)
    ELSE IF StartsWith(relative_path, Bytes("/")) THEN Ok(SubSeq(base, 1, h) \o relative_path)
    ELSE Ok(url_directory(base, h) \o relative_path)

url_join(base, relative_path) == url_join_at(base, host_end(base, scheme_end(base)), relative_path)

\* An URL that is always the plain concatenation
absolute_url_concat(base_url, relative_path) == base_url \o relative_path

\* `Url::parse(base_url).and_then(|base| base.join(relative_path))
\*  .unwrap_or_else(|_| format!("{}{}", base_url, relative_path))`
absolute_url(base_url, relative_path) ==
    IF url_parse(base_url).ok /\ url_join(base_url, relative_path).ok
    THEN url_join(base_url, relative_path).val
    ELSE base_url \o relative_path

\* Image::from_metadata
from_metadata(os_name, release_name, distro_version, version, architecture, base_url, relative_path, sha256, image_type) ==
    Image(os_name, release_name, distro_version, version, architecture,
          absolute_url(Bytes(base_url), Bytes(relative_path)),
          IF sha256.some THEN Some(ImageChecksum("sha256", sha256.val)) ELSE None,
          image_type)

KnownArchitectures == {"amd64", "arm64", "ppc64el", "s390x"}

\* ubuntu_list: the product's explicit arch, else the trailing ':' segment
\* of the product key when it is a known architecture token.
resolved_architecture(product_name, product_metadata) ==
    LET product_tail == LastSegment(product_name, 58)
    IN  IF product_metadata.arch.some THEN product_metadata.arch
        ELSE IF \E t \in KnownArchitectures : Bytes(t) = product_tail
        THEN Some(CHOOSE t \in KnownArchitectures : Bytes(t) = product_tail)
        ELSE None

\* An item loop that takes every item, with or without a path
item_has_path_always(image_item) == TRUE

\* `let Some(relative_path) = image_item.path().clone() else { continue }`
item_has_path(image_item) == image_item.path.some

\* The body of the innermost loop (only_disk_images = false): nothing for
\* an item without a path; product_metadata.os().unwrap() panics when the
\* product has no OS name.
ubuntu_item_images(product_metadata, arch_, version_id, alias, image_item, base_url) ==
    IF ~item_has_path(image_item) THEN Ok(<< >>)
    ELSE IF ~product_metadata.os.some THEN Panicked
    ELSE Ok(<< from_metadata(product_metadata.os.val,
                             IF product_metadata.release.some
                             THEN product_metadata.release.val ELSE "ubuntu",
                             IF product_metadata.distro_version.some
                             THEN product_metadata.distro_version.val
                             ELSE "No distro version found",
                             version_id, arch_, base_url,
                             IF image_item.path.some THEN image_item.path.val ELSE "",
                             image_item.sha256, alias) >>)

\* `for (alias, image_item) in version_metadata.items()`
ubuntu_version_images(product_metadata, arch_, version_id, base_url) ==
    LET items == product_metadata.versions[version_id].items
    IN  UNION {ThenAll([k \in 1..Len(o) |->
                          {ubuntu_item_images(product_metadata, arch_, version_id,
                                              o[k], items[o[k]], base_url)}]) :
               o \in Orders(DOMAIN items)}

\* One product of `for (product_name, product_metadata) in catalog.products()`
ubuntu_product_images(product_name, product_metadata, target_arch, base_url) ==
    LET resolved == resolved_architecture(product_name, product_metadata)
    IN  IF ~resolved.some \/ resolved.val # target_arch THEN {Ok(<< >>)}
        ELSE UNION {ThenAll([k \in 1..Len(o) |->
                               ubuntu_version_images(product_metadata, resolved.val,
                                                     o[k], base_url)]) :
                    o \in Orders(DOMAIN product_metadata.versions)}

\* ubuntu_list(track, target_arch, false) once the catalog is decoded: the
\* results it can return, one per iteration order of the maps.
ubuntu_list(catalog, target_arch, base_url) ==
    UNION {ThenAll([k \in 1..Len(o) |->
                      ubuntu_product_images(o[k], catalog.products[o[k]],
                                            target_arch, base_url)]) :
           o \in Orders(DOMAIN catalog.products)}

\* The catalogs of the calls: up to MaxEntries items, each under one of the
\* product keys, version ids and aliases below.
MaxEntries == 3

ProductKeys ==
    {Bytes("com.ubuntu.cloud:server:22.04:") \o Bytes("amd64"),
     Bytes("com.ubuntu.cloud.daily:server:22.04:") \o Bytes("amd64"),
     Bytes("com.ubuntu.cloud:server:24.04"),
     Bytes("com.ubuntu.cloud:server:22.04:") \o Bytes("riscv64"),
     Bytes("com.ubuntu.cloud:minimal:22.04:") \o Bytes("amd64")}

VersionIds == {"20240101", "20240202"}

Aliases == {"disk1.img", "root.tar.xz", "manifest"}

\* The fields of the product under a key: an architecture in the key only,
\* an explicit arch that differs from the key's, an explicit arch and
\* neither release nor version, an unknown architecture, no OS name.
ProductFields(key) ==
    CASE key = Bytes("com.ubuntu.cloud:server:22.04:") \o Bytes("amd64")
           -> [arch |-> None, os |-> Some("ubuntu"), release |-> Some("jammy"),
               distro_version |-> Some("22.04")]
      [] key = Bytes("com.ubuntu.cloud.daily:server:22.04:") \o Bytes("amd64")
           -> [arch |-> Some("arm64"), os |-> Some("ubuntu"), release |-> Some("jammy"),
               distro_version |-> Some("22.04")]
      [] key = Bytes("com.ubuntu.cloud:server:24.04")
           -> [arch |-> Some("amd64"), os |-> Some("ubuntu"), release |-> None,
               distro_version |-> None]
      [] key = Bytes("com.ubuntu.cloud:server:22.04:") \o Bytes("riscv64")
           -> [arch |-> None, os |-> Some("ubuntu"), release |-> Some("jammy"),
               distro_version |-> Some("22.04")]
      [] key = Bytes("com.ubuntu.cloud:server:20.04:") \o Bytes("amd64")
           -> [arch |-> None, os |-> Some("ubuntu"), release |-> Some("focal"),
               distro_version |-> Some("")]
      [] OTHER
           -> [arch |-> None, os |-> None, release |-> Some("jammy"),
               distro_version |-> Some("22.04")]

\* The item under an alias: with a path and a digest, with a path only,
\* with neither.
ItemFields(alias) ==
    CASE alias = "disk1.img"   -> Item(Some("server/disk1.img"),
                                       Some(hex_encode(Sha(PublishedBody))))
      [] alias = "root.tar.xz" -> Item(Some("server/root.tar.xz"), None)
      [] alias = "disk-kvm.img" -> Item(Some("server/disk1.img"), Some(HexLower(Sha256HexLen)))
      [] alias = "elsewhere"   -> Item(Some("https://"), Some(HexUpper(Sha256HexLen)))
      [] OTHER                 -> Item(None, None)

CatalogOf(entries) ==
    LET keys == {e[1] : e \in entries}
        vids(k) == {e[2] : e \in {x \in entries : x[1] = k}}
        als(k, v) == {e[3] : e \in {x \in entries : x[1] = k /\ x[2] = v}}
    IN  Catalog([k \in keys |->
          LET f == ProductFields(k)
          IN  Product(f.arch, f.os, f.release, f.distro_version,
                      [v \in vids(k) |-> Version([a \in als(k, v) |-> ItemFields(a)])])])

Catalogs == {CatalogOf(E) : E \in SubsetsUpTo(ProductKeys \X VersionIds \X Aliases, MaxEntries)}

UbuntuListArgs(catalog, target_arch, base_url) ==
    [catalog |-> catalog, target_arch |-> target_arch, base_url |-> base_url]

\* ubuntu_list(track, target_arch, false) on a decoded catalog
UbuntuListCall ==
    /\ Pending("ubuntu_list")
    /\ \E out \in ubuntu_list(call.val.args.catalog, call.val.args.target_arch,
                               call.val.args.base_url) :
         Returns(out, << >>)
    /\ UNCHANGED <<regVars, flowVars, dvVars>>

InitUbuntuList ==
    /\ ret = None
    /\ asked = << >>
    /\ \E catalog \in Catalogs, target_arch \in {"amd64", "arm64"} :
         call = Calling("ubuntu_list", UbuntuListArgs(catalog, target_arch,
                                                      "https://cloud-images.ubuntu.com/releases/"))

NextUbuntuList == UbuntuListCall

-----------------------------------------------------------------------------
(* repositories/debian/mod.rs: repository_urls and debian_list on the text *)
(* of the index page and of the SHA512SUMS manifests                        *)

\* str::split(sep)
RECURSIVE Split(_, _)
Split(t, sep) ==
    LET at == {i \in 1..Len(t) : t[i] = sep}
    IN  IF at = {} THEN <<t>>
        ELSE LET i == CHOOSE i \in at : \A j \in at : i <= j
             IN  <<SubSeq(t, 1, i - 1)>> \o Split(SubSeq(t, i + 1, Len(t)), sep)

\* str::lines: the pieces between line feeds, without the carriage return
\* that ends a piece before its line feed and without the empty piece
\* after a final line feed.
lines(t) ==
    LET parts == Split(t, 10)
        n == IF parts[Len(parts)] = << >> THEN Len(parts) - 1 ELSE Len(parts)
    IN  [k \in 1..n |->
           IF k < Len(parts) /\ EndsWith(parts[k], <<13>>)
           THEN SubSeq(parts[k], 1, Len(parts[k]) - 1)
           ELSE parts[k]]

\* The text of a URL kept as fragments
RECURSIVE Flat(_)
Flat(frags) == IF frags = << >> THEN << >> ELSE Bytes(frags[1]) \o Flat(Tail(frags))

\* repository_urls(codename).listing_root
listing_root_of(latest) ==
    IF EndsWith(latest, Bytes("latest/"))
    THEN SubSeq(latest, 1, Len(latest) - Len(Bytes("latest/")))
    ELSE latest

WithSlash(t) == IF EndsWith(t, Bytes("/")) THEN t ELSE t \o Bytes("/")

listing_root(c) ==
    IF ~repository_template.ok THEN Err("config")
    ELSE Ok(WithSlash(listing_root_of(WithSlash(
                Flat(repository_template.val[1]) \o c \o Flat(repository_template.val[2])))))

\* What a GET may come to: a transport error of send(), a response with a
\* non-success status, a response whose body cannot be read, a body.
Transport == Err("transport")

Status404 == Ok([status |-> 404, text |-> Err("body")])

Unreadable == Ok([status |-> 200, text |-> Err("body")])

Body(t) == Ok([status |-> 200, text |-> Ok(t)])

\* href_re, href="([^"/]+)/": where the run of bytes other than '"' and
\* '/' that starts at j ends
href_run_end(html, j) ==
    Least({e \in j..(Len(html) + 1) : e = Len(html) + 1 \/ html[e] \in {34, 47}})

\* href_re matches at i, its group 1 running from j up to e
href_match(html, i, j, e) ==
    /\ MatchAt(html, i, Bytes("href=\""))
    /\ e > j
    /\ MatchAt(html, e, Bytes("/\""))

href_at(html, i, j) == href_match(html, i, j, href_run_end(html, j))

href_group(html, j) == SubSeq(html, j, href_run_end(html, j) - 1)

\* href_re.captures_iter(html): group 1 of every match, in page order
href_captures(html) ==
    Map(Pick([i \in 1..Len(html) |-> i],
             {i \in 1..Len(html) : href_at(html, i, i + Len(Bytes("href=\"")))}),
        LAMBDA i : href_group(html, i + Len(Bytes("href=\""))))

\* A directory pattern without "latest": ^\d{8}(?:-\d{4})?$
valid_dir_dated(dir) ==
    \/ Len(dir) = 8 /\ \A i \in 1..8 : IsDigit(dir[i])
    \/ /\ Len(dir) = 13
       /\ \A i \in 1..8 : IsDigit(dir[i])
       /\ dir[9] = 45
       /\ \A i \in 10..13 : IsDigit(dir[i])

\* valid_dir_re: ^(?:latest|\d{8}(?:-\d{4})?)$
valid_dir(dir) ==
    \/ dir = Bytes("latest")
    \/ Len(dir) = 8 /\ \A i \in 1..8 : IsDigit(dir[i])
    \/ /\ Len(dir) = 13
       /\ \A i \in 1..8 : IsDigit(dir[i])
       /\ dir[9] = 45
       /\ \A i \in 10..13 : IsDigit(dir[i])

\* The first occurrence of every element: `if !seen.insert(dir) { continue }`
FirstSeen(s) == Pick(s, {i \in 1..Len(s) : \A j \in 1..(i - 1) : s[j] # s[i]})

\* Dated directories in the order of the index page
dated_dirs_unsorted(dated) == dated

\* dated_dirs.sort(); dated_dirs.reverse()
dated_dirs_sorted(dated) == Reverse(SortBy(dated, BytesLess))

\* `dirs`: "latest" when it was found, then the dated directories
dirs_of(found) ==
    (IF \E i \in 1..Len(found) : found[i] = Bytes("latest")
     THEN <<Bytes("latest")>> ELSE << >>)
    \o dated_dirs_sorted(SelectSeq(found, LAMBDA d : d # Bytes("latest")))

\* The build directories debian_list visits, in order.
build_dirs(index_html) ==
    dirs_of(FirstSeen(SelectSeq(href_captures(index_html), valid_dir)))

\* line_re, (?i) throughout.  The leading run of hex digits and the run of
\* white space after it:
hex_run(line) ==
    Least({e \in 0..Len(line) : e = Len(line) \/ ~IsHex(line[e + 1])})

space_run(line, h) ==
    Least({e \in h..Len(line) : e = Len(line) \/ ~IsSpace(line[e + 1])})

\* \*?: where the file name starts after the white space that ends at w
file_start(line, w) == IF w < Len(line) /\ line[w + 1] = 42 THEN w + 2 ELSE w + 1

\* (?P<arch>amd64|arm64)\.(?P<ext>qcow2|raw)$
tail_matches(tail) ==
    /\ Len(tail) = 2
    /\ to_ascii_lowercase(tail[1]) \in {Bytes("amd64"), Bytes("arm64")}
    /\ to_ascii_lowercase(tail[2]) \in {Bytes("qcow2"), Bytes("raw")}

\* (?P<dver>\d+)-(?P<variant>[a-z0-9]+)-
parts_match(parts) ==
    /\ Len(parts) = 3
    /\ parts[1] # << >> /\ \A i \in 1..Len(parts[1]) : IsDigit(parts[1][i])
    /\ parts[2] # << >> /\ \A i \in 1..Len(parts[2]) : IsAlnum(parts[2][i])
    /\ tail_matches(Split(parts[3], 46))

\* The text of the file name after its "debian-"
file_rest(file) == SubSeq(file, Len(Bytes("debian-")) + 1, Len(file))

\* (?P<file>debian-...)
file_matches(file) ==
    /\ Len(file) > Len(Bytes("debian-"))
    /\ eq_ignore_ascii_case(SubSeq(file, 1, Len(Bytes("debian-"))), Bytes("debian-"))
    /\ parts_match(Split(file_rest(file), 45))

tail_captures(sha, file, parts, tail) ==
    [sha |-> sha, file |-> file, dver |-> parts[1], variant |-> parts[2],
     arch |-> tail[1], ext |-> tail[2]]

file_captures(sha, file, parts) == tail_captures(sha, file, parts, Split(parts[3], 46))

line_file(sha, file) ==
    IF file_matches(file) THEN Some(file_captures(sha, file, Split(file_rest(file), 45)))
    ELSE None

line_after_space(line, h, w) ==
    IF w = h THEN None
    ELSE line_file(SubSeq(line, 1, h), SubSeq(line, file_start(line, w), Len(line)))

line_after_sha(line, h) ==
    IF h \notin {Sha256HexLen, Sha512HexLen} THEN None
    ELSE line_after_space(line, h, space_run(line, h))

\* line_re.captures(line): the groups sha, file, dver, variant, arch and
\* ext, or None when the line does not match.
line_captures(line) == line_after_sha(line, hex_run(line))

\* Image::from_parts
from_parts(os, name, distro_version, version, a, url, checksum, image_type) ==
    Image(os, name, distro_version, version, a, url, checksum, image_type)

\* make_image of the Debian provider
debian_make_image(c, url, a, image_type, version, distro_version, checksum) ==
    from_parts(Bytes("debian"), c, distro_version, version, a, url, checksum, image_type)

\* A request taken as it is
want_arch_verbatim(a) == a

\* `let want_arch = match arch { "x86_64" => "amd64", other => other }`
want_arch(a) == IF a = Bytes("x86_64") THEN Bytes("amd64") ELSE a

\* `if file_arch != want_arch { continue; }`
file_arch_differs(file_arch, wanted) == file_arch # wanted

\* The body of `if let Some(c) = line_re.captures(line.trim())`
debian_capture_images(c, wanted, base, d, cap) ==
    IF ~cap.some THEN << >>
    ELSE IF file_arch_differs(cap.val.arch, wanted) THEN << >>
    ELSE << debian_make_image(c, base \o d \o Bytes("/") \o cap.val.file, wanted,
                              cap.val.variant, d, cap.val.dver,
                              Some(ImageChecksum("sha512", cap.val.sha))) >>

\* The body of `for line in sums.lines()`: the images one line gives
debian_line_images(c, wanted, base, d, line) ==
    debian_capture_images(c, wanted, base, d, line_captures(Trim(line)))

RECURSIVE Concat(_)
Concat(ss) == IF ss = << >> THEN << >> ELSE ss[1] \o Concat(Tail(ss))

\* The answer of the server for the SHA512SUMS of directory d: a missing
\* file is a 404
SumsAnswer(sums, d) == IF d \in DOMAIN sums THEN sums[d] ELSE Status404

\* A directory whose failed request ends the loop
debian_dir_failed_breaks(answer) == "break"

\* `Err(_) => continue`: a failed SHA512SUMS request skips the directory
debian_dir_failed(answer) == "continue"

\* `for line in sums.lines()`
debian_lines_images(c, wanted, base, d, ls) ==
    Concat([k \in 1..Len(ls) |-> debian_line_images(c, wanted, base, d, ls[k])])

\* One directory of `for d in dirs`: the images of its manifest, or the
\* way a failed request leaves the loop body
debian_dir_images(c, wanted, base, d, answer) ==
    IF ~answer.ok \/ answer.val.status # 200 THEN [left |-> debian_dir_failed(answer)]
    ELSE [left |-> "end",
          images |-> debian_lines_images(c, wanted, base, d,
                        lines(IF answer.val.text.ok THEN answer.val.text.val ELSE << >>))]

\* What the loop has done after one directory and the rest of the loop
debian_dirs_join(d, step, rest) ==
    IF step.left = "break" THEN [images |-> << >>, visited |-> <<d>>]
    ELSE [images |-> (IF step.left = "end" THEN step.images ELSE << >>) \o rest.images,
          visited |-> <<d>> \o rest.visited]

\* `for d in dirs`, from the k-th directory on: the images pushed and the
\* directories whose SHA512SUMS was requested
RECURSIVE debian_dirs_loop(_, _, _, _, _, _)
debian_dirs_loop(c, wanted, base, dirs, sums, k) ==
    IF k > Len(dirs) THEN [images |-> << >>, visited |-> << >>]
    ELSE debian_dirs_join(dirs[k],
             debian_dir_images(c, wanted, base, dirs[k], SumsAnswer(sums, dirs[k])),
             debian_dirs_loop(c, wanted, base, dirs, sums, k + 1))

sums_url(root, d) == root \o d \o Bytes("/") \o Bytes("SHA512SUMS")

debian_list_result(root, loop) ==
    [out |-> Ok(loop.images),
     requests |-> <<root>> \o [k \in 1..Len(loop.visited) |-> sums_url(root, loop.visited[k])]]

\* debian_list once repository_urls has returned
debian_list_from(root, c, a, index, sums) ==
    IF ~index.ok \/ index.val.status # 200 \/ ~index.val.text.ok
    THEN [out |-> Err("network"), requests |-> <<root>>]
    ELSE debian_list_result(root, debian_dirs_loop(c, want_arch(a), root,
                                                  build_dirs(index.val.text.val), sums, 1))

\* debian_list(codename, arch, false): the result and the requests issued
debian_list(c, a, index, sums) ==
    IF ~listing_root(c).ok THEN [out |-> Err("config"), requests |-> << >>]
    ELSE debian_list_from(listing_root(c).val, c, a, index, sums)

\* The index pages: one anchor per target, up to MaxAnchors anchors.
MaxAnchors == 2

\* The anchor targets that name a build directory, and those that do not
BuildDirTargets ==
    {Bytes("latest"), Bytes("20240101"), Bytes("20240101-1200"), Bytes("20240202-0000")}

AnchorTargets == BuildDirTargets \cup {Bytes("daily"), Bytes("2024010"), Bytes("LATEST")}

Anchor(target) == Bytes("<a href=\"") \o target \o Bytes("/\">dir</a>") \o <<10>>

IndexHtml(targets) == Concat([k \in 1..Len(targets) |-> Anchor(targets[k])])

IndexPages == {IndexHtml(ts) : ts \in UNION {[1..n -> AnchorTargets] : n \in 0..MaxAnchors}}

ManifestLine(sha, sep, file) == sha \o sep \o file

DebianFile(stem, dver, variant, a, ext) ==
    stem \o dver \o Bytes("-") \o variant \o Bytes("-") \o a \o Bytes(".") \o ext

\* The manifests of the build directories: the one line of an amd64
\* genericcloud image; and a manifest of four lines, the second ended by
\* CR LF, the third no image file, the fourth without a line feed.
ManifestOne ==
    ManifestLine(HexLower(Sha512HexLen), Bytes("  "),
                 DebianFile(Bytes("debian-"), Bytes("12"), Bytes("genericcloud"),
                            Bytes("amd64"), Bytes("qcow2"))) \o <<10>>

ManifestFour ==
    ManifestLine(HexUpper(Sha512HexLen), Bytes(" *"),
                 DebianFile(Bytes("debian-"), Bytes("12"), Bytes("nocloud"),
                            Bytes("amd64"), Bytes("raw"))) \o <<10>>
    \o ManifestLine(HexLower(Sha512HexLen), Bytes("  "),
                    DebianFile(Bytes("debian-"), Bytes("13"), Bytes("genericcloud"),
                               Bytes("arm64"), Bytes("qcow2"))) \o <<13, 10>>
    \o ManifestLine(HexLower(Sha512HexLen), Bytes("  "),
                    DebianFile(Bytes("debian-"), Bytes("12"), Bytes("genericcloud"),
                               Bytes("amd64"), Bytes("json"))) \o <<10>>
    \o ManifestLine(HexLower(Sha256HexLen), Bytes("  "),
                    DebianFile(Bytes("debian-"), Bytes("13"), Bytes("nocloud"),
                               Bytes("amd64"), Bytes("qcow2")))

SumsAnswers == {Transport, Status404, Unreadable, Body(ManifestOne), Body(ManifestFour)}

IndexAnswers == {Transport, Status404, Unreadable} \cup {Body(p) : p \in IndexPages}

RequestedArchs == {Bytes("amd64"), Bytes("x86_64"), Bytes("arm64")}

DebianListArgs(c, a, index, sums) == [codename |-> c, arch |-> a, index |-> index, sums |-> sums]

DebianListReturns(r) == Returns(r.out, r.requests)

\* debian_list(codename, arch, false)
DebianListCall ==
    /\ Pending("debian_list")
    /\ DebianListReturns(debian_list(call.val.args.codename, call.val.args.arch,
                                     call.val.args.index, call.val.args.sums))
    /\ UNCHANGED <<regVars, flowVars, dvVars>>

\* The registry as main leaves it: initialized once, from a document.
InitConfigured(json) ==
    LET r == init_from_json_str(None, json)
    IN  /\ CACHE = r.cell
        /\ regLast = Some([res |-> r.res, offered |-> Offered(Some(json))])
        /\ regFirst = Some(Offered(Some(json)).val)
        /\ regOkCount = 1
        /\ regCalls = 1
        /\ regRead = None

InitDebianList ==
    /\ ret = None
    /\ asked = << >>
    /\ \E a \in RequestedArchs, index \in IndexAnswers :
         \E sums \in [(IF index.ok /\ index.val.status = 200 /\ index.val.text.ok
                       THEN {d \in BuildDirTargets : Contains(index.val.text.val, Anchor(d))}
                       ELSE {}) -> SumsAnswers] :
           call = Calling("debian_list", DebianListArgs(Bytes("test"), a, index, sums))

NextDebianList == DebianListCall

\* The manifest lines of the calls that read one line: a digest, a
\* separator and a file name, each well-formed or not.
LineDigests == {HexLower(Sha512HexLen), HexUpper(Sha512HexLen), HexLower(Sha256HexLen),
                HexLower(Sha256HexLen - 1)}

LineSeparators == {Bytes("  "), Bytes(" *"), << >>}

LineMajors == {Bytes("12"), Bytes("1a")}

LineVariants == {Bytes("genericcloud"), Bytes("GENERICCLOUD")}

LineArchs == {Bytes("amd64"), Bytes("arm64"), Bytes("AMD64"), Bytes("x86_64")}

LineExts == {Bytes("qcow2"), Bytes("raw"), Bytes("json")}

DebianLines ==
    {ManifestLine(sha, sep, DebianFile(Bytes("debian-"), dver, variant, a, ext)) :
       sha \in LineDigests, sep \in LineSeparators, dver \in LineMajors,
       variant \in LineVariants, a \in LineArchs, ext \in LineExts}

\* The index page lists "latest" alone and latest/SHA512SUMS is one line.
InitDebianLines ==
    /\ ret = None
    /\ asked = << >>
    /\ \E a \in RequestedArchs, line \in DebianLines :
         call = Calling("debian_list",
                        DebianListArgs(Bytes("test"), a, Body(IndexHtml(<<Bytes("latest")>>)),
                                       [d \in {Bytes("latest")} |-> Body(line)]))

(***************************************************************************)
(* repositories/almalinux/mod.rs: split_version_parts,                     *)
(* parse_artifact_filename, almalinux_list and available_majors on the     *)
(* text of file names, of the CHECKSUM manifest and of the majors index    *)
(***************************************************************************)

\* A fragment that is "latest" letter for letter
split_is_latest_exact(fragment) == fragment = Bytes("latest")

\* `if fragment.eq_ignore_ascii_case("latest")`
split_is_latest(fragment) == eq_ignore_ascii_case(fragment, Bytes("latest"))

\* `if let Some((release, build)) = fragment.rsplit_once('-')`, with the
\* trimmed parts both non-empty; else the fallback (major, fragment)
split_on_hyphen(fragment, m, cut) ==
    IF cut.some /\ Trim(cut.val[1]) # << >> /\ Trim(cut.val[2]) # << >>
    THEN <<Trim(cut.val[1]), Trim(cut.val[2])>>
    ELSE <<m, fragment>>

\* split_version_parts(fragment, major): (distro_version, image_version)
split_version_parts(fragment, m) ==
    IF split_is_latest(fragment) THEN <<m, Bytes("latest")>>
    ELSE split_on_hyphen(fragment, m, rsplit_once(fragment, 45))

\* The version fragments of the calls: every text of at most MaxFragment
\* bytes of a digit, a hyphen, a space and a dot, and those of the
\* published file names.
MaxFragment == 3

FragmentBytes == {57, 45, 32, 46}

Fragments ==
    UNION {[1..n -> FragmentBytes] : n \in 0..MaxFragment}
    \cup {Bytes("latest"), Bytes("LATEST"), Bytes("Latest"), Bytes("9.4-20240513"),
          Bytes("20240513")}

SplitMajors == {Bytes("9"), Bytes("10"), << >>}

SplitArgs(fragment, m) == [fragment |-> fragment, major |-> m]

\* split_version_parts(fragment, major)
SplitVersionCall ==
    /\ Pending("split_version_parts")
    /\ Returns(split_version_parts(call.val.args.fragment, call.val.args.major), << >>)
    /\ UNCHANGED <<regVars, flowVars, dvVars>>

SplitCalls == {Calling("split_version_parts", SplitArgs(f, m)) : f \in Fragments, m \in SplitMajors}

\* The capture groups of a match
Captures(maj, variant, version, a, ext) == [major |-> maj, variant |-> variant, version |-> version, arch |-> a, ext |-> ext]

\* Where the run of ASCII digits that starts at j ends
digit_run_end(t, j) == Least({e \in j..(Len(t) + 1) : e = Len(t) + 1 \/ ~IsDigit(t[e])})

\* [A-Za-z0-9-]+ over t[lo..hi]
variant_run(t, lo, hi) == lo <= hi /\ \A k \in lo..hi : IsAlnum(t[k]) \/ t[k] = 45

\* [A-Za-z0-9.-]+ over t[lo..hi]
version_run(t, lo, hi) == lo <= hi /\ \A k \in lo..hi : IsAlnum(t[k]) \/ t[k] \in {45, 46}

\* Where the run of [A-Za-z0-9_] that starts at j ends
arch_run_end(t, j) == Least({e \in j..(Len(t) + 1) : e = Len(t) + 1 \/ ~(IsAlnum(t[e]) \/ t[e] = 95)})

\* \.(?P<arch>[A-Za-z0-9_]+)\.(?P<ext>.+)$ from the dot at d, the
\* architecture running up to e
arch_ext_match(t, d, e) ==
    /\ e > d + 1
    /\ e < Len(t)
    /\ t[e] = 46
    /\ \A k \in (e + 1)..Len(t) : t[k] # 10

\* The rest of filename_regex from p on, the variant ending at ve and the
\* version at re
split_match(t, p, ve, re) ==
    /\ variant_run(t, p, ve)
    /\ t[ve + 1] = 45
    /\ version_run(t, ve + 2, re)
    /\ t[re + 1] = 46
    /\ arch_ext_match(t, re + 1, arch_run_end(t, re + 2))

\* The ends a variant may have: the bytes before a hyphen
variant_ends(t, p) == {ve \in p..(Len(t) - 1) : t[ve + 1] = 45}

\* The ends a version may have: the bytes before a dot
version_ends(t, ve) == {re \in (ve + 2)..(Len(t) - 1) : t[re + 1] = 46}

\* The greedy groups take the longest variant that lets the rest match,
\* then the longest version
variant_end(t, p) ==
    Greatest({ve \in variant_ends(t, p) : \E re \in version_ends(t, ve) : split_match(t, p, ve, re)})

version_end(t, p, ve) == Greatest({re \in version_ends(t, ve) : split_match(t, p, ve, re)})

captures_at(t, j, p, ve, re, ae) ==
    Captures(SubSeq(t, j, p - 2), SubSeq(t, p, ve), SubSeq(t, ve + 2, re),
             SubSeq(t, re + 2, ae - 1), SubSeq(t, ae + 1, Len(t)))

captures_cut(t, j, p, ve, re) == captures_at(t, j, p, ve, re, arch_run_end(t, re + 2))

captures_from(t, j, p, ve) == captures_cut(t, j, p, ve, version_end(t, p, ve))

\* filename_regex once the major has matched t[j..e-1]
captures_after_major(t, j, e) ==
    IF e = j \/ e > Len(t) \/ t[e] # 45 THEN None
    ELSE IF \A ve \in variant_ends(t, e + 1) : \A re \in version_ends(t, ve) : ~split_match(t, e + 1, ve, re)
    THEN None
    ELSE Some(captures_from(t, j, e + 1, variant_end(t, e + 1)))

\* filename_regex().captures(filename):
\* ^AlmaLinux-(\d+)-([A-Za-z0-9-]+)-([A-Za-z0-9.-]+)\.([A-Za-z0-9_]+)\.(.+)$
filename_captures(t) ==
    IF ~StartsWith(t, Bytes("AlmaLinux-")) THEN None
    ELSE captures_after_major(t, Len(Bytes("AlmaLinux-")) + 1,
                              digit_run_end(t, Len(Bytes("AlmaLinux-")) + 1))

AlmaArtifactOf(filename, maj, variant, distro_version, image_version, a, format) ==
    [filename |-> filename, major |-> maj, variant |-> variant, distro_version |-> distro_version,
     image_version |-> image_version, arch |-> a, format |-> format]

\* An architecture compared byte for byte
arch_differs_exact(a, expected_arch) == a # expected_arch

\* `if !arch.eq_ignore_ascii_case(expected_arch) { return None; }`
arch_differs(a, expected_arch) == ~eq_ignore_ascii_case(a, expected_arch)

\* `format_lower.contains("checksum") || format_lower.ends_with(".sig")`
not_an_image(format_lower) ==
    Contains(format_lower, Bytes("checksum")) \/ EndsWith(format_lower, Bytes(".sig"))

artifact_of(filename, caps, parts) ==
    Some(AlmaArtifactOf(filename, caps.major, caps.variant, parts[1], parts[2], caps.arch, caps.ext))

parse_captures(filename, expected_arch, caps) ==
    IF arch_differs(caps.arch, expected_arch) THEN None
    ELSE IF not_an_image(to_ascii_lowercase(caps.ext)) THEN None
    ELSE artifact_of(filename, caps, split_version_parts(caps.version, caps.major))

parse_matched(filename, expected_arch, found) ==
    IF ~found.some THEN None ELSE parse_captures(filename, expected_arch, found.val)

\* parse_artifact_filename(filename, expected_arch)
parse_artifact_filename(filename, expected_arch) ==
    parse_matched(filename, expected_arch, filename_captures(filename))

\* The file names of the calls: the parts a mirror publishes, and parts
\* that break the grammar or name something that is no image.
FileMajors == {Bytes("9"), << >>}

FileVariants == {Bytes("GenericCloud"), Bytes("GenericCloud-UEFI")}

FileVersions == {Bytes("latest"), Bytes("LATEST"), Bytes("9.4-20240513"), Bytes("20240513")}

FileArchs == {Bytes("x86_64"), Bytes("X86_64"), Bytes("aarch64")}

FileExts == {Bytes("qcow2"), Bytes("qcow2.CHECKSUM"), Bytes("qcow2.sig"), Bytes("sig"),
             Bytes("tar.gz"), Bytes("checksum")}

FileName(maj, variant, version, a, ext) ==
    Bytes("AlmaLinux-") \o maj \o Bytes("-") \o variant \o Bytes("-") \o version
    \o Bytes(".") \o a \o Bytes(".") \o ext

FileNames ==
    {FileName(maj, variant, version, a, ext) :
        maj \in FileMajors, variant \in FileVariants, version \in FileVersions,
        a \in FileArchs, ext \in FileExts}

ExpectedArchs == {Bytes("x86_64"), Bytes("aarch64")}

ParseArgs(filename, expected_arch) == [filename |-> filename, expected_arch |-> expected_arch]

\* parse_artifact_filename(filename, expected_arch)
ParseFilenameCall ==
    /\ Pending("parse_artifact_filename")
    /\ Returns(parse_artifact_filename(call.val.args.filename, call.val.args.expected_arch), << >>)
    /\ UNCHANGED <<regVars, flowVars, dvVars>>

ParseCalls ==
    {Calling("parse_artifact_filename", ParseArgs(f, a)) : f \in FileNames, a \in ExpectedArchs}

\* checksum_line_regex from the byte after "SHA256 (AlmaLinux-" on, the
\* file name ending before the ")" at e
checksum_line_match(line, j, e) ==
    /\ e > j
    /\ MatchAt(line, e, Bytes(") = "))
    /\ Len(line) - (e + Len(Bytes(") = ")) - 1) = Sha256HexLen
    /\ \A k \in (e + Len(Bytes(") = ")))..Len(line) : IsHex(line[k])

\* Where the run of bytes other than ")" that starts at j ends
file_run_end(line, j) == Least({e \in j..(Len(line) + 1) : e = Len(line) + 1 \/ line[e] = 41})

checksum_line_groups(line, e) ==
    [file |-> SubSeq(line, Len(Bytes("SHA256 (")) + 1, e - 1),
     sha |-> SubSeq(line, e + Len(Bytes(") = ")), Len(line))]

checksum_line_cut(line, j, e) ==
    IF checksum_line_match(line, j, e) THEN Some(checksum_line_groups(line, e)) ELSE None

\* checksum_line_regex().captures(line):
\* ^SHA256 \((?P<file>AlmaLinux-[^)]+)\) = (?P<sha>[A-Fa-f0-9]{64})$
checksum_line_captures(line) ==
    IF ~StartsWith(line, Bytes("SHA256 (AlmaLinux-")) THEN None
    ELSE checksum_line_cut(line, Len(Bytes("SHA256 (AlmaLinux-")) + 1,
                           file_run_end(line, Len(Bytes("SHA256 (AlmaLinux-")) + 1))

\* make_image of the AlmaLinux provider
make_image(base_url, artifact, checksum) ==
    from_parts(Bytes("almalinux"), artifact.variant, artifact.distro_version,
               artifact.image_version, artifact.arch, base_url \o artifact.filename,
               Some(checksum), artifact.format)

\* `if let Some(artifact) = parse_artifact_filename(filename, arch)`
alma_artifact_images(base, sha, artifact) ==
    IF artifact.some THEN <<make_image(base, artifact.val, ImageChecksum("sha256", sha))>>
    ELSE << >>

alma_capture_images(base, a, caps) ==
    IF caps.some THEN alma_artifact_images(base, caps.val.sha, parse_artifact_filename(caps.val.file, a))
    ELSE << >>

\* One turn of `for line in checksum_body.lines()`
alma_line_images(base, a, trimmed) ==
    IF trimmed = << >> THEN << >> ELSE alma_capture_images(base, a, checksum_line_captures(trimmed))

alma_lines_images(base, a, ls) ==
    Concat([k \in 1..Len(ls) |-> alma_line_images(base, a, Trim(ls[k]))])

\* An order on distro_version alone
alma_sort_less_release_only(x, y) == BytesLess(y.distro_version, x.distro_version)

\* The comparator of images.sort_by in almalinux_list, on the text of the
\* fields
alma_sort_less(x, y) ==
    IF x.distro_version # y.distro_version THEN BytesLess(y.distro_version, x.distro_version)
    ELSE IF x.version # y.version THEN BytesLess(y.version, x.version)
    ELSE IF x.name # y.name THEN BytesLess(x.name, y.name)
    ELSE BytesLess(x.image_type, y.image_type)

alma_sorted(imgs) == SortBy(imgs, alma_sort_less)

alma_list_out(base, a, answer) ==
    IF answer.ok /\ answer.val.status = 200 /\ answer.val.text.ok
    THEN Ok(alma_sorted(alma_lines_images(base, a, lines(answer.val.text.val))))
    ELSE Err("network")

alma_list_from(base, a, answer) ==
    [out |-> alma_list_out(base, a, answer), requests |-> <<base \o Bytes("CHECKSUM")>>]

alma_list_at(base, a, answer) ==
    IF ~base.ok THEN [out |-> Err("config"), requests |-> << >>]
    ELSE alma_list_from(WithSlash(Flat(base.val)), Bytes(a), answer)

\* almalinux_list(major, arch), given the answer to its request
almalinux_list(m, a, answer) == alma_list_at(repository_base_url(m, a), a, answer)

\* The CHECKSUM manifests of the calls: at most MaxLines of these lines.
MaxLines == 3

ChecksumLine(file, sha) == Bytes("SHA256 (") \o file \o Bytes(") = ") \o sha

AlmaFile(variant, version, a, ext) == FileName(Bytes("9"), variant, version, a, ext)

AlmaLines ==
    { ChecksumLine(AlmaFile(Bytes("GenericCloud"), Bytes("latest"), Bytes("x86_64"), Bytes("qcow2")),
                   HexLower(Sha256HexLen)),
      ChecksumLine(AlmaFile(Bytes("GenericCloud"), Bytes("latest"), Bytes("x86_64"), Bytes("qcow2")),
                   HexUpper(Sha256HexLen)),
      ChecksumLine(AlmaFile(Bytes("GenericCloud"), Bytes("9.4-20240513"), Bytes("x86_64"), Bytes("qcow2")),
                   HexLower(Sha256HexLen)),
      ChecksumLine(AlmaFile(Bytes("GenericCloud"), Bytes("9.10-20240513"), Bytes("x86_64"), Bytes("qcow2")),
                   HexLower(Sha256HexLen)),
      Bytes("  ") \o ChecksumLine(AlmaFile(Bytes("OpenNebula"), Bytes("latest"), Bytes("x86_64"), Bytes("raw")),
                                  HexLower(Sha256HexLen)) \o <<32, 13>>,
      ChecksumLine(AlmaFile(Bytes("GenericCloud"), Bytes("latest"), Bytes("x86_64"), Bytes("qcow2.CHECKSUM")),
                   HexLower(Sha256HexLen)),
      ChecksumLine(AlmaFile(Bytes("GenericCloud"), Bytes("latest"), Bytes("X86_64"), Bytes("qcow2")),
                   HexLower(Sha256HexLen)),
      ChecksumLine(AlmaFile(Bytes("GenericCloud"), Bytes("latest"), Bytes("x86_64"), Bytes("sig")),
                   HexLower(Sha256HexLen)) }

ChecksumBody(ls) == Concat([k \in 1..Len(ls) |-> ls[k] \o <<10>>])

ChecksumBodies == {ChecksumBody(ls) : ls \in UNION {[1..n -> AlmaLines] : n \in 0..MaxLines}}

ChecksumAnswers == {Transport, Status404, Unreadable} \cup {Body(b) : b \in ChecksumBodies}

AlmaListArgs(m, a, answer) == [major |-> m, arch |-> a, answer |-> answer]

AlmaListReturns(r) == Returns(r.out, r.requests)

\* almalinux_list(major, arch)
AlmaListCall ==
    /\ Pending("almalinux_list")
    /\ AlmaListReturns(almalinux_list(call.val.args.major, call.val.args.arch, call.val.args.answer))
    /\ UNCHANGED <<regVars, flowVars, dvVars>>

AlmaListCalls ==
    {Calling("almalinux_list", AlmaListArgs("9", a, answer)) :
        a \in {"x86_64", "aarch64"}, answer \in ChecksumAnswers}

\* dir_re, href="(\d{1,2})/", matches at i
major_href_at(html, i, j, e) ==
    /\ MatchAt(html, i, Bytes("href=\""))
    /\ e - j \in {1, 2}
    /\ MatchAt(html, e, Bytes("/\""))

major_href(html, i, j) == major_href_at(html, i, j, digit_run_end(html, j))

major_group(html, j) == SubSeq(html, j, digit_run_end(html, j) - 1)

\* dir_re.captures_iter(&html): group 1 of every match, in page order
major_captures(html) ==
    Map(Pick([i \in 1..Len(html) |-> i],
             {i \in 1..Len(html) : major_href(html, i, i + Len(Bytes("href=\"")))}),
        LAMBDA i : major_group(html, i + Len(Bytes("href=\""))))

\* `cap[1].to_string()`: the String of the digits matched
MajorNames == {"8", "9", "10", "12", "13"}

MajorNamed(t) == CHOOSE s \in MajorNames : Bytes(s) = t

\* What the request for the majors root brought: the links of the page, or
\* the failure of send, error_for_status or text
majors_listing(answer) ==
    IF answer.ok /\ answer.val.status = 200 /\ answer.val.text.ok
    THEN Ok(Map(major_captures(answer.val.text.val), MajorNamed))
    ELSE Err("network")

\* The pages of the majors root: at most MaxLinks links to these targets.
MaxLinks == 3

LinkTargets == {Bytes("8"), Bytes("9"), Bytes("10"), Bytes("100"), Bytes("latest")}

MajorsPages == {IndexHtml(ts) : ts \in UNION {[1..n -> LinkTargets] : n \in 0..MaxLinks}}

MajorsAnswers == {Transport, Status404, Unreadable} \cup {Body(p) : p \in MajorsPages}

\* available_majors()
AvailableMajorsCall ==
    /\ Pending("available_majors")
    /\ Returns(available_majors(majors_listing(call.val.args.answer)),
               IF majors_root_url.ok THEN <<majors_root_url.val>> ELSE << >>)
    /\ UNCHANGED <<regVars, flowVars, dvVars>>

AvailableMajorsCalls ==
    {Calling("available_majors", [answer |-> answer]) : answer \in MajorsAnswers}

\* The registry as a configuration without a usable almalinux entry leaves
\* it, and as one with a majors_root parameter does.
AlmaDocs == {"full", "mirror_only", "alma_flat", "alma_rooted"}

InitAlma ==
    /\ ret = None
    /\ asked = << >>
    /\ \/ /\ InitConfigured("full")
          /\ call \in SplitCalls \cup ParseCalls \cup AlmaListCalls
       \/ /\ InitRegistry \/ \E json \in AlmaDocs : InitConfigured(json)
          /\ call \in AvailableMajorsCalls

NextAlma ==
    \/ SplitVersionCall
    \/ ParseFilenameCall
    \/ AlmaListCall
    \/ AvailableMajorsCall

(***************************************************************************)
(* repositories/ubuntu/mod.rs: construct_repo_url,                         *)
(* fetch_repo_json_file_to_tmp and construct_repo_catalogue over the files *)
(* of the temp folder, one catalogue construction after another            *)
(***************************************************************************)

\* str::replacen("{}", with, 1) on a template
replacen_first(template, at, with) ==
    IF at.some THEN [template EXCEPT ![at.val] = with] ELSE template

\* construct_repo_url(track): the catalog URL, or the panic of its unwraps
construct_repo_url_of(repo, track) ==
    IF ~repo.ok \/ ~repo.val.some THEN Panicked
    ELSE Ok(Flat(replacen_first(repo.val.val.url, Position(repo.val.val.url, "{}"), track)))

construct_repo_url(track) == construct_repo_url_of(by_name(CACHE, "ubuntu"), track)

\* `url.rsplit('/').next().filter(|s| !s.is_empty()).unwrap_or("repo.json")`
file_name_or(segment) == IF segment # << >> THEN segment ELSE Bytes("repo.json")

file_name(url) == file_name_or(LastSegment(url, 47))

\* Path::with_extension
with_extension_of(name, cut, ext) ==
    IF cut.some /\ cut.val[1] # << >> THEN cut.val[1] \o Bytes(".") \o ext
    ELSE name \o Bytes(".") \o ext

with_extension(name, ext) == with_extension_of(name, rsplit_once(name, 46), ext)

\* A folder in which no file is ever found
cache_exists_never(dir, name) == FALSE

\* tmp_path.exists()
cache_exists(dir, name) == name \in DOMAIN dir

\* serde_json::from_slice::<Catalog>: the documents upstream has published
\* for its tracks, and one cut short
serde_from_slice(bytes) ==
    CASE bytes = "releases.1" -> Ok(CatalogOf({<<Bytes("com.ubuntu.cloud:server:24.04"), "20240101", "disk1.img">>}))
      [] bytes = "releases.2" -> Ok(CatalogOf({<<Bytes("com.ubuntu.cloud:server:24.04"), "20240202", "disk1.img">>}))
      [] bytes = "daily.1"    -> Ok(CatalogOf({<<Bytes("com.ubuntu.cloud:server:24.04"), "20240202", "root.tar.xz">>}))
      [] OTHER                -> Err("parse")

Fetched(res, dir, url) == [res |-> res, dir |-> dir, requests |-> <<url>>]

\* fetch_repo_json_file_to_tmp once the body is read: the bytes go to the
\* .download file, which is renamed to the destination
fetch_write(url, name, dir, bytes, written) ==
    IF written THEN Fetched(Ok(name), (name :> bytes) @@ dir, url)
    ELSE Fetched(Err("disk"), (with_extension(name, Bytes("download")) :> bytes) @@ dir, url)

\* fetch_repo_json_file_to_tmp(url, dest_path)
fetch_repo_json_file_to_tmp(url, name, dir, io) ==
    IF ~io.answer.ok THEN Fetched(Err("send"), dir, url)
    ELSE IF io.answer.val.status # 200 THEN Fetched(Err("status"), dir, url)
    ELSE IF ~io.answer.val.text.ok THEN Fetched(Err("body"), dir, url)
    ELSE fetch_write(url, name, dir, io.answer.val.text.val, io.written)

Constructed(out, dir, requests) == [out |-> out, dir |-> dir, requests |-> requests]

\* `fs::read(&tmp_path)` and `serde_json::from_slice(&bytes)`
read_cached(name, dir, requests) == Constructed(serde_from_slice(dir[name]), dir, requests)

\* `match fetch_repo_json_file_to_tmp(url, &tmp_path).await`
construct_fetched(name, f) ==
    IF ~f.res.ok THEN Constructed(Panicked, f.dir, f.requests)
    ELSE read_cached(name, f.dir, f.requests)

construct_at(url, name, dir, io) ==
    IF ~cache_exists(dir, name)
    THEN construct_fetched(name, fetch_repo_json_file_to_tmp(url, name, dir, io))
    ELSE read_cached(name, dir, << >>)

\* construct_repo_catalogue(url)
construct_repo_catalogue(url, dir, io) == construct_at(url, file_name(url), dir, io)

\* At most MaxResolutions catalogue constructions follow one another.
MaxResolutions == 3

Tracks == {"releases", "daily"}

\* What upstream serves for a track at one time or another
TrackDocuments(track) == IF track = "releases" THEN {"releases.1", "releases.2"} ELSE {"daily.1", "truncated"}

FetchOutcome(answer, written) == [answer |-> answer, written |-> written]

\* How the request and the write to the temp folder may go
FetchOutcomes(track) ==
    {FetchOutcome(answer, TRUE) : answer \in {Transport, Status404, Unreadable}}
    \cup {FetchOutcome(Body(d), w) : d \in TrackDocuments(track), w \in BOOLEAN}

\* The record of one construction: whether the cache file existed when it
\* began, the requests it issued, what it returned and what it cached
Resolution(track, name, dir, r) ==
    [track |-> track, existed |-> name \in DOMAIN dir, requests |-> r.requests, out |-> r.out,
     stored |-> IF name \notin DOMAIN dir /\ name \in DOMAIN r.dir THEN Some(r.dir[name]) ELSE None]

Constructs(track, url, r) ==
    /\ call' = Calling("construct_repo_catalogue", [track |-> track, url |-> url])
    /\ ret' = Some(r.out)
    /\ asked' = r.requests
    /\ tmpDir' = r.dir
    /\ resolutions' = Append(resolutions, Resolution(track, file_name(url), tmpDir, r))

\* The catalogue step of one resolution:
\* construct_repo_catalogue(&construct_repo_url(release_track))
ConstructRepoCatalogue ==
    /\ Len(resolutions) < MaxResolutions
    /\ \E track \in Tracks :
         /\ construct_repo_url(track).ok
         /\ \E io \in FetchOutcomes(track) :
              Constructs(track, construct_repo_url(track).val,
                         construct_repo_catalogue(construct_repo_url(track).val, tmpDir, io))
    /\ UNCHANGED <<regVars, flowVars, dvVars>>

InitCatalogCache ==
    /\ call = None
    /\ ret = None
    /\ asked = << >>
    /\ InitCache
    /\ \E json \in {"full", "mirror_only"} : InitConfigured(json)

NextCatalogCache == ConstructRepoCatalogue

(***************************************************************************)
(* The three provider list functions side by side: ubuntu_list on catalogs *)
(* with an empty version key, an empty version field or a foreign path and *)
(* on base URLs that do not parse, debian_list on one manifest line,       *)
(* almalinux_list on a CHECKSUM manifest                                   *)
(***************************************************************************)

FieldProductKeys ==
    {Bytes("com.ubuntu.cloud:server:22.04:") \o Bytes("amd64"),
     Bytes("com.ubuntu.cloud:server:24.04"),
     Bytes("com.ubuntu.cloud:server:20.04:") \o Bytes("amd64")}

FieldVersionIds == {"20240101", ""}

FieldAliases == {"disk-kvm.img", "elsewhere"}

FieldCatalogs ==
    {CatalogOf(E) : E \in SubsetsUpTo(FieldProductKeys \X FieldVersionIds \X FieldAliases, MaxEntries)}

\* base_for_paths of the registry with the track filled in: of the
\* configuration shipped, of one that names a relative folder, of one left
\* empty
UbuntuBases == {"https://cloud-images.ubuntu.com/releases/", "mirror/releases/", ""}

UbuntuFieldCalls ==
    {Calling("ubuntu_list", UbuntuListArgs(catalog, "amd64", base_url)) :
        catalog \in FieldCatalogs, base_url \in UbuntuBases}

DebianLineCalls ==
    {Calling("debian_list",
             DebianListArgs(Bytes("test"), a, Body(IndexHtml(<<Bytes("latest")>>)),
                            [d \in {Bytes("latest")} |-> Body(line)])) :
        a \in RequestedArchs, line \in DebianLines}

InitProviderLists ==
    /\ ret = None
    /\ asked = << >>
    /\ InitConfigured("full")
    /\ call \in UbuntuFieldCalls \cup DebianLineCalls \cup AlmaListCalls

NextProviderLists ==
    \/ UbuntuListCall
    \/ DebianListCall
    \/ AlmaListCall

InitFlow ==
    /\ pc = "start"
    /\ exitCode = None
    /\ distro = None
    /\ arch = None
    /\ codename = None
    /\ hint = None
    /\ major = None
    /\ menu = << >>
    /\ images = << >>
    /\ picks = << >>
    /\ listed = None
    /\ listCalls = 0
    /\ prompts = << >>
    /\ netlog = << >>
    /\ cancelledAt = 0
    /\ error = None
    /\ selected = None
    /\ outFile = None
    /\ dlResult = None
    /\ dlStatus = None

InitProgram == InitRegistry /\ InitFlow /\ InitVerify

Init == InitProgram /\ InitLibrary

\* The registry calls, in any order
SpecRegistry == Init /\ [][NextRegistry]_vars

\* Calls of download_and_verify
SpecVerify == Init /\ [][NextVerify]_vars

\* Calls of debian_list against an index page and the manifests of its directories
InitDebianListCalls ==
    InitConfigured("full") /\ InitFlow /\ InitVerify /\ InitCache /\ InitDebianList

SpecDebianList == InitDebianListCalls /\ [][NextDebianList]_vars

\* Calls of debian_list that read a manifest of one line
InitDebianLinesCalls ==
    InitConfigured("full") /\ InitFlow /\ InitVerify /\ InitCache /\ InitDebianLines

SpecDebianLines == InitDebianLinesCalls /\ [][NextDebianList]_vars

\* Calls of ubuntu_list on decoded catalogs
InitUbuntuListCalls == InitProgram /\ InitCache /\ InitUbuntuList

SpecUbuntuList == InitUbuntuListCalls /\ [][NextUbuntuList]_vars

\* Calls of the functions of the AlmaLinux provider
InitAlmaCalls == InitFlow /\ InitVerify /\ InitCache /\ InitAlma

SpecAlma == InitAlmaCalls /\ [][NextAlma]_vars

\* Catalogue constructions that share the temp folder
InitCatalogCacheRuns == InitFlow /\ InitVerify /\ InitCatalogCache

SpecCatalogCache == InitCatalogCacheRuns /\ [][NextCatalogCache]_vars

\* Calls of the three provider list functions
InitProviderListCalls == InitFlow /\ InitVerify /\ InitCache /\ InitProviderLists

SpecProviderLists == InitProviderListCalls /\ [][NextProviderLists]_vars

\* One run of the program: main, the wizard of the chosen distro, the download
Next ==
    \/ MainInit
    \/ SelectDistro
    \/ MenuFailure
    \/ UbuntuArch
    \/ UbuntuList
    \/ UbuntuDistroVersion
    \/ UbuntuImageVersion
    \/ UbuntuImageType
    \/ UbuntuArtifact
    \/ DebianCodenames
    \/ DebianCodename
    \/ DebianArch
    \/ DebianList
    \/ DebianDistroVersion
    \/ DebianImageVersion
    \/ DebianImageType
    \/ DebianArtifact
    \/ AlmaArch
    \/ AlmaMajors
    \/ AlmaMajor
    \/ AlmaList
    \/ AlmaDistroVersion
    \/ AlmaImageVersion
    \/ AlmaVariant
    \/ AlmaFormat
    \/ AlmaArtifact
    \/ DownloadSend
    \/ DownloadChunk
    \/ DownloadFinish
    \/ DownloadAbort

Spec == Init /\ [][Next]_vars

-----------------------------------------------------------------------------
(* Properties *)

\* What by_name / all / all_owned return for a stored configuration
ReadOf(repos, op, name) ==
    IF op = "by_name" THEN Ok(FindByName(repos, name)) ELSE Ok(repos)

\* C1: once an initialization call has succeeded, no later initialization
\* call succeeds, the stored configuration is that of the first successful
\* call, and by_name / all / all_owned answer from that configuration.
C1_FirstConfigurationKept ==
    /\ regOkCount <= 1
    /\ regFirst.some =>
          /\ regOkCount = 1
          /\ CACHE = regFirst
          /\ all(CACHE) = Ok(regFirst.val)
          /\ all_owned(CACHE) = Ok(regFirst.val)
          /\ \A n \in RepoNames : by_name(CACHE, n) = Ok(FindByName(regFirst.val, n))
          /\ regRead.some =>
                regRead.val.res = ReadOf(regFirst.val, regRead.val.op, regRead.val.name)

\* A later call offered another configuration, was rejected, and a lookup
\* then found an entry of the first configuration.
C1_Witness ==
    /\ regFirst.some
    /\ regLast.some
    /\ regLast.val.res = Err("AlreadyInitialized")
    /\ regLast.val.offered.ok
    /\ regLast.val.offered.val # regFirst.val
    /\ regRead.some
    /\ regRead.val.op = "by_name"
    /\ regRead.val.res.ok
    /\ regRead.val.res.val.some

\* The requests that start an artifact download
DownloadRequests == {i \in 1..Len(netlog) : netlog[i].kind = "download"}

\* C2: when the operator cancels a prompt, the resolution returns an error:
\* the cancelled prompt is the last prompt shown, no image is returned and
\* no artifact download is started.
C2_CancelFailsResolution ==
    cancelledAt # 0 =>
        /\ Len(prompts) = cancelledAt
        /\ ~prompts[cancelledAt].sel.some
        /\ error = Some([kind |-> "cancel", attached |-> {}])
        /\ pc = "exited"
        /\ selected = None
        /\ DownloadRequests = {}
        /\ outFile = None
        /\ dlResult = None

\* The operator went through a whole wizard and cancelled its last prompt.
C2_Witness ==
    /\ cancelledAt # 0
    /\ prompts[cancelledAt].step = "artifact"
    /\ pc = "exited"

\* C3: the output file holds bytes only when their digest equals the
\* checksum recorded on the selected image.
C3_WrittenOnlyWhenVerified ==
    (outFile.some /\ outFile.val # << >>) =>
        /\ selected.some
        /\ selected.val.checksum.some
        /\ hex_encode(Sha(outFile.val)) = to_lowercase(selected.val.checksum.val.value)

\* C4: once download_and_verify has fetched the bytes, a digest that differs
\* from the lowercase form of the expected one makes it return an error
\* with nothing written; an equal digest makes it write exactly the fetched
\* bytes and return Ok (or panic in write(..).unwrap(), when the file system
\* refuses the write); it returns Ok and writes in no other case.
C4_VerifyIffDigestsEqual ==
    /\ dvBytes.some =>
          LET equal == hex_encode(Sha(dvBytes.val)) = to_lowercase(dvAsset.val.sha512)
          IN  /\ ~equal => /\ dvPc = "returned"
                           /\ dvResult = Some(Err("mismatch"))
                           /\ dvFile = None
              /\ equal => \/ /\ dvPc = "returned"
                             /\ dvResult = Some(Ok("unit"))
                             /\ dvFile = dvBytes
                          \/ /\ dvPc = "panicked"
                             /\ dvResult = None
                             /\ dvFile = None
    /\ (dvResult.some /\ dvResult.val.ok) => dvBytes.some
    /\ dvFile.some => (dvResult.some /\ dvResult.val.ok)

\* The expected digest was written in upper case and the call succeeded.
C4_Witness ==
    /\ dvResult = Some(Ok("unit"))
    /\ dvAsset.val.sha512 # to_lowercase(dvAsset.val.sha512)
    /\ dvFile = dvBytes
    /\ dvBytes.val # << >>

\* C5: the process ends with status zero only when the artifact was
\* downloaded successfully.
C5_ZeroExitOnlyOnSuccess ==
    (pc = "exited" /\ exitCode = Some(0)) => (dlResult.some /\ dlResult.val.ok)

\* The prompts of the provider wizard: from the architecture prompt onward
WizardPrompts ==
    LET from == {i \in 1..Len(prompts) : prompts[i].step = "arch"}
    IN  IF from = {} THEN << >>
        ELSE SubSeq(prompts, CHOOSE i \in from : \A j \in from : i <= j, Len(prompts))

StepsOf(ps) == [k \in 1..Len(ps) |-> ps[k].step]

IsPrefix(a, b) == Len(a) <= Len(b) /\ a = SubSeq(b, 1, Len(a))

FiveSteps == <<"arch", "distro_version", "version", "image_type", "artifact">>

NarrowSteps == {"distro_version", "version", "variant", "image_type"}

\* The field of a candidate a narrowing step projects and filters on
Field(c, step) ==
    CASE step = "distro_version" -> c.distro_version
      [] step = "version"        -> c.version
      [] step = "image_type"     -> c.image_type
      [] step = "variant"        -> c.name

\* The architecture of the images a provider lists for the chosen one
ListedArch == IF distro = Some("Debian") /\ arch.val = "x86_64" THEN "amd64" ELSE arch.val

ListFunctions == {"ubuntu_list", "debian_list", "almalinux_list"}

CodenameDiscovery == {"available_codenames", "detect_major_version"}

CandidatesAt(i) ==
    SelectSeq(listed.val,
              LAMBDA c : /\ hint.some => c.distro_version = hint.val
                         /\ \A j \in 1..(i - 1) :
                               prompts[j].step \in NarrowSteps =>
                                  Field(c, prompts[j].step) = prompts[j].items[prompts[j].sel.val])

\* C7 (as stated): a resolution that completes has shown the five steps
\* architecture, distro version, build version, image type, final artifact,
\* in this order and each exactly once.
C7_FiveStepsEachOnce ==
    selected.some =>
        SelectSeq(StepsOf(prompts), LAMBDA st : st \in {"arch", "distro_version", "version",
                                                        "image_type", "artifact"}) = FiveSteps

\* The steps a wizard goes through, by provider
ExpectedSteps ==
    CASE distro = Some("AlmaLinux") ->
             <<"arch", "major", "distro_version", "version", "variant", "image_type", "artifact">>
      [] distro = Some("Debian") /\ hint.some ->
             <<"arch", "version", "image_type", "artifact">>
      [] OTHER -> FiveSteps

\* C7 (amended): the wizard's prompts follow the fixed order architecture,
\* distro version, build version, image type, final artifact, none shown
\* twice and none returned to, except that Debian shows no distro-version
\* prompt when the chosen codename came with a detected major, and that
\* AlmaLinux adds a major prompt after the architecture and a variant
\* prompt before the image type; a resolution that completes has shown all
\* of its steps; the options of each narrowing step are the distinct values
\* of its field over the whole current candidate list, and the artifact
\* prompt has one label per candidate.
C7_FixedOrderWholeList ==
    /\ IsPrefix(StepsOf(WizardPrompts), ExpectedSteps)
    /\ selected.some => StepsOf(WizardPrompts) = ExpectedSteps
    /\ \A i \in 1..Len(prompts) :
          LET p == prompts[i]
          IN  /\ p.step \in NarrowSteps =>
                    /\ p.cands = CandidatesAt(i)
                    /\ {p.items[k] : k \in 1..Len(p.items)}
                         = {Field(p.cands[k], p.step) : k \in 1..Len(p.cands)}
                    /\ \A k, l \in 1..Len(p.items) : p.items[k] = p.items[l] => k = l
              /\ p.step = "artifact" =>
                    /\ p.cands = CandidatesAt(i)
                    /\ Len(p.items) = Len(p.cands)

\* A Debian resolution completed without a distro-version prompt, on a list
\* that held several candidates.
C7_Witness ==
    /\ selected.some
    /\ distro = Some("Debian")
    /\ hint.some
    /\ Len(listed.val) > 1
    /\ StepsOf(WizardPrompts) = <<"arch", "version", "image_type", "artifact">>

\* C8: the final artifact prompt is shown only when more than one candidate
\* survives the image-type step, with a label of five fields (name, type,
\* version, arch, url) per candidate.
C8_ArtifactPromptOnlyForSeveral ==
    \A i \in 1..Len(prompts) :
        prompts[i].step = "artifact" =>
            /\ Len(prompts[i].cands) > 1
            /\ \A k \in 1..Len(prompts[i].items) : Len(prompts[i].items[k]) = 5

\* C9: an error raised on an empty candidate list carries every filter
\* value chosen so far: the architecture and the values of the narrowing
\* steps.
C9_EmptyErrorCarriesChoices ==
    (error.some /\ error.val.kind = "empty") =>
        /\ arch.some => <<"arch", arch.val>> \in error.val.attached
        /\ \A k \in DOMAIN picks : <<k, picks[k]>> \in error.val.attached

\* The composite label of the artifact prompt, by provider
LabelOf(c) ==
    IF distro = Some("Ubuntu") THEN <<c.name, c.arch, c.url>>
    ELSE <<c.name, c.image_type, c.version, c.arch, c.url>>

-----------------------------------------------------------------------------
(* ubuntu_list *)

\* The call of fn has returned.
LastCall(fn) == call.some /\ call.val.fn = fn /\ ret.some

\* The (product, version, item) triples of a catalog whose product resolves
\* to the architecture.
ArchTriples(catalog, target_arch) ==
    UNION {UNION {{<<k, v, a>> : a \in DOMAIN catalog.products[k].versions[v].items} :
                  v \in DOMAIN catalog.products[k].versions} :
           k \in {p \in DOMAIN catalog.products :
                    resolved_architecture(p, catalog.products[p]) = Some(target_arch)}}

TripleItem(catalog, t) == catalog.products[t[1]].versions[t[2]].items[t[3]]

\* The images are one per triple of T: some one-to-one assignment of the
\* list's positions to the triples gives every image the version id, the
\* alias, the path and the digest of its triple and the architecture asked.
OnePerTriple(imgs, catalog, target_arch, T) ==
    /\ Len(imgs) = Cardinality(T)
    /\ \E f \in [1..Len(imgs) -> T] :
         /\ \A i, j \in 1..Len(imgs) : f[i] = f[j] => i = j
         /\ \A i \in 1..Len(imgs) :
              LET item == TripleItem(catalog, f[i])
              IN  /\ imgs[i].version = f[i][2]
                  /\ imgs[i].image_type = f[i][3]
                  /\ imgs[i].arch = target_arch
                  /\ item.path.some => EndsWith(imgs[i].url, Bytes(item.path.val))
                  /\ imgs[i].checksum.some = item.sha256.some

\* C11: for a catalog all of whose products have an OS name and any
\* requested architecture, ubuntu_list returns exactly one image per
\* (product, version, item) triple whose product resolves to the requested
\* architecture, with the version map's key as its build version.
C11_OneImagePerTriple ==
    LastCall("ubuntu_list") =>
      LET catalog == call.val.args.catalog
          target_arch == call.val.args.target_arch
      IN  (\A k \in DOMAIN catalog.products : catalog.products[k].os.some) =>
            /\ ret.val.ok
            /\ OnePerTriple(ret.val.val, catalog, target_arch,
                            ArchTriples(catalog, target_arch))

\* C11: ubuntu_list returns exactly one image per (product, version, item)
\* triple whose item has a path and whose product resolves to the requested
\* architecture, no other image, each with the version map's key as its
\* build version; it panics instead when the product of such a triple has
\* no OS name.
C11_OneImagePerTripleWithPath ==
    LastCall("ubuntu_list") =>
      LET catalog == call.val.args.catalog
          target_arch == call.val.args.target_arch
          T == {t \in ArchTriples(catalog, target_arch) : TripleItem(catalog, t).path.some}
      IN  IF \E t \in T : ~catalog.products[t[1]].os.some
          THEN ret.val = Panicked
          ELSE /\ ret.val.ok
               /\ OnePerTriple(ret.val.val, catalog, target_arch, T)

\* A call that returned an image for one item of a product and none for an
\* item without a path, in a catalog that holds a product of another
\* architecture too.
C11_Witness ==
    /\ LastCall("ubuntu_list")
    /\ ret.val.ok
    /\ Len(ret.val.val) = 1
    /\ LET catalog == call.val.args.catalog
           target_arch == call.val.args.target_arch
       IN  /\ \E t \in ArchTriples(catalog, target_arch) : ~TripleItem(catalog, t).path.some
           /\ \E k \in DOMAIN catalog.products :
                resolved_architecture(k, catalog.products[k]) # Some(target_arch)
-----------------------------------------------------------------------------
(* debian_list *)

\* The call of debian_list has returned and its index page had been fetched.
IndexFetched ==
    /\ LastCall("debian_list")
    /\ call.val.args.index.ok
    /\ call.val.args.index.val.status = 200
    /\ call.val.args.index.val.text.ok

\* The SHA512SUMS of a directory was fetched, and its text (empty when the
\* body could not be read).
SumsFetched(answer) == answer.ok /\ answer.val.status = 200

SumsText(answer) == IF answer.val.text.ok THEN answer.val.text.val ELSE << >>

\* The images of a list that come from directory d
FromDir(imgs, d) == SelectSeq(imgs, LAMBDA i : i.version = d)

\* The lines of a manifest that match the grammar and name the architecture
MatchingLines(text, wanted) ==
    SelectSeq(Map(lines(text), Trim),
              LAMBDA l : line_captures(l).some /\ line_captures(l).val.arch = wanted)

ImageOfLine(img, root, d, wanted, cap) ==
    /\ img.distro_version = cap.dver
    /\ img.image_type = cap.variant
    /\ img.arch = wanted
    /\ img.version = d
    /\ img.url = root \o d \o Bytes("/") \o cap.file
    /\ img.checksum = Some(ImageChecksum("sha512", cap.sha))

ImagesOfLines(imgs, root, d, wanted, ls) ==
    /\ Len(imgs) = Len(ls)
    /\ \A k \in 1..Len(imgs) : ImageOfLine(imgs[k], root, d, wanted, line_captures(ls[k]).val)

DirImagesAsManifest(imgs, root, wanted, d, answer) ==
    ImagesOfLines(FromDir(imgs, d), root, d, wanted,
                  IF SumsFetched(answer) THEN MatchingLines(SumsText(answer), wanted)
                  ELSE << >>)

\* C12: whatever build directories were discovered and whichever of their
\* SHA512SUMS requests fail, debian_list returns Ok, and for every
\* directory the images of the result that come from it are exactly the
\* matching lines of its manifest when that was fetched and none when it
\* was not: they depend on no other directory's request.
C12_FailedManifestSkipsOnlyItsDirectory ==
    IndexFetched =>
      /\ ret.val.ok
      /\ \A i \in 1..Len(ret.val.val) : ret.val.val[i].version \in DOMAIN call.val.args.sums
      /\ \A d \in DOMAIN call.val.args.sums :
           DirImagesAsManifest(ret.val.val, listing_root(call.val.args.codename).val,
                               want_arch(call.val.args.arch), d, call.val.args.sums[d])

\* The request for latest/SHA512SUMS failed and the result holds the image
\* of a later directory.
C12_Witness ==
    /\ IndexFetched
    /\ ret.val.ok
    /\ Bytes("latest") \in DOMAIN call.val.args.sums
    /\ ~SumsFetched(call.val.args.sums[Bytes("latest")])
    /\ ret.val.val # << >>

\* debian_list has returned from a call whose only manifest is this line.
ReadTheLine(line) ==
    /\ IndexFetched
    /\ DOMAIN call.val.args.sums = {Bytes("latest")}
    /\ call.val.args.sums[Bytes("latest")] = Body(line)

\* The architecture asked of the manifests: a requested x86_64 is amd64.
Wanted == IF call.val.args.arch = Bytes("x86_64") THEN Bytes("amd64") ELSE call.val.args.arch

EmittedVerbatim(imgs, sha, dver, variant, file) ==
    /\ Len(imgs) = 1
    /\ imgs[1].distro_version = dver
    /\ imgs[1].image_type = variant
    /\ imgs[1].arch = Wanted
    /\ EndsWith(imgs[1].url, Bytes("/") \o file)
    /\ imgs[1].checksum = Some(ImageChecksum("sha512", sha))

EmittedIffArch(imgs, sha, dver, variant, fa, file) ==
    IF fa = Wanted THEN EmittedVerbatim(imgs, sha, dver, variant, file) ELSE imgs = << >>

\* C14: for every manifest line of the grammar (a digest of 64 or 128 hex
\* digits in either case, white space, an optional '*', a file name
\* debian-<major>-<variant>-<arch>.<ext>), debian_list emits an image if and
\* only if the file name's architecture equals the requested one, a
\* requested x86_64 standing for amd64 and the file name taken as it is; the
\* image carries the line's major and variant verbatim, and an upper-case
\* digest is matched as the lower-case one is.
C14_LineEmittedIffArchMatches ==
    \A sha \in {HexLower(Sha512HexLen), HexUpper(Sha512HexLen), HexLower(Sha256HexLen)},
       sep \in {Bytes("  "), Bytes(" *")},
       variant \in LineVariants,
       fa \in {Bytes("amd64"), Bytes("arm64"), Bytes("AMD64")},
       ext \in {Bytes("qcow2"), Bytes("raw")} :
      ReadTheLine(ManifestLine(sha, sep, DebianFile(Bytes("debian-"), Bytes("12"), variant, fa, ext)))
        => /\ ret.val.ok
           /\ EmittedIffArch(ret.val.val, sha, Bytes("12"), variant, fa,
                             DebianFile(Bytes("debian-"), Bytes("12"), variant, fa, ext))

\* A requested x86_64 and an amd64 line with an upper-case digest: the
\* image is emitted with the digest as the line writes it.
C14_Witness ==
    /\ IndexFetched
    /\ DOMAIN call.val.args.sums = {Bytes("latest")}
    /\ call.val.args.arch = Bytes("x86_64")
    /\ ret.val.ok
    /\ Len(ret.val.val) = 1
    /\ ret.val.val[1].arch = Bytes("amd64")
    /\ ret.val.val[1].checksum = Some(ImageChecksum("sha512", HexUpper(Sha512HexLen)))

\* The anchor targets of the index page that name a build directory
PageDirs(html) == {t \in BuildDirTargets : Contains(html, Anchor(t))}

\* "latest" first, then strictly descending
LatestThenDescending(V) ==
    \A k \in 2..Len(V) :
      /\ V[k] # Bytes("latest")
      /\ (V[k - 1] = Bytes("latest") \/ BytesLess(V[k], V[k - 1]))

IndexIn(V, d) == CHOOSE k \in 1..Len(V) : V[k] = d

InOrderOf(imgs, V) ==
    \A i, j \in 1..Len(imgs) :
      i < j => IndexIn(V, imgs[i].version) <= IndexIn(V, imgs[j].version)

SumsRequests(root, V) == <<root>> \o [k \in 1..Len(V) |-> sums_url(root, V[k])]

\* C13: after the index page, debian_list requests the SHA512SUMS of the
\* distinct anchor targets that are "latest" or a date of 8 digits with an
\* optional time of 4 digits, each once, "latest" first when present and
\* the dated directories in descending order, and the images of its result
\* appear in that order of their directories.
C13_LatestFirstThenDatedDescending ==
    IndexFetched =>
      \E V \in Orders(PageDirs(call.val.args.index.val.text.val)) :
        /\ LatestThenDescending(V)
        /\ asked = SumsRequests(listing_root(call.val.args.codename).val, V)
        /\ InOrderOf(ret.val.val, V)

\* The page lists a dated directory before "latest"; the result holds the
\* images of "latest" first and those of the dated directory after them.
C13_Witness ==
    /\ IndexFetched
    /\ StartsWith(call.val.args.index.val.text.val, Anchor(Bytes("20240101")))
    /\ Len(asked) = 3
    /\ Len(ret.val.val) >= 2
    /\ ret.val.val[1].version = Bytes("latest")
    /\ ret.val.val[Len(ret.val.val)].version = Bytes("20240101")

\* The index exposes "latest" and "20240101-1200", only latest/SHA512SUMS
\* is fetchable and holds the one line of debian-12-genericcloud-amd64.qcow2,
\* and debian_list("test", "amd64") has returned.
Scenario ==
    /\ IndexFetched
    /\ call.val.args.codename = Bytes("test")
    /\ call.val.args.arch = Bytes("amd64")
    /\ DOMAIN call.val.args.sums = {Bytes("latest"), Bytes("20240101-1200")}
    /\ call.val.args.sums[Bytes("latest")] = Body(ManifestOne)
    /\ ~SumsFetched(call.val.args.sums[Bytes("20240101-1200")])

\* C15: in that scenario debian_list returns exactly one candidate, with
\* distro_version "12", image_type "genericcloud", version "latest" and a
\* sha512 checksum.
C15_SyntheticIndexOneCandidate ==
    Scenario =>
      /\ ret.val.ok
      /\ Len(ret.val.val) = 1
      /\ ret.val.val[1].distro_version = Bytes("12")
      /\ ret.val.val[1].image_type = Bytes("genericcloud")
      /\ ret.val.val[1].version = Bytes("latest")
      /\ ret.val.val[1].checksum.some
      /\ ret.val.val[1].checksum.val.kind = "sha512"

C15_Witness == Scenario /\ ret.val.ok /\ Len(asked) = 3

-----------------------------------------------------------------------------
(* AlmaLinux provider functions *)

\* The parts of f around its last hyphen, when it has one
AroundLastHyphen(f) ==
    {<<SubSeq(f, 1, i - 1), SubSeq(f, i + 1, Len(f))>> :
        i \in {i \in 1..Len(f) : f[i] = 45 /\ \A j \in (i + 1)..Len(f) : f[j] # 45}}

\* split_version_parts(f, m) returned parts, reading "latest" with IsLatest
\* and the parts around the last hyphen through Part
SplitAs(f, m, parts, isLatest, Part(_)) ==
    IF isLatest THEN parts = <<m, Bytes("latest")>>
    ELSE IF \E p \in AroundLastHyphen(f) : Part(p[1]) # << >> /\ Part(p[2]) # << >>
    THEN \E p \in AroundLastHyphen(f) : parts = <<Part(p[1]), Part(p[2])>>
    ELSE parts = <<m, f>>

NeitherEmpty(f, m, parts) == (f # << >> /\ m # << >>) => (parts[1] # << >> /\ parts[2] # << >>)

\* C16 as stated: split_version_parts(f, m) returns (m, "latest") when f is
\* the literal "latest"; otherwise, when f has a hyphen and both parts
\* around its last hyphen are non-empty, it returns those parts; otherwise
\* it returns (m, f); neither component is empty when f and m are not.
C16_SplitLiteralLatestAndParts ==
    LastCall("split_version_parts")
      => /\ SplitAs(call.val.args.fragment, call.val.args.major, ret.val,
                    call.val.args.fragment = Bytes("latest"), LAMBDA t : t)
         /\ NeitherEmpty(call.val.args.fragment, call.val.args.major, ret.val)

\* C16: split_version_parts(f, m) returns (m, "latest") when f is "latest"
\* in any letter case; otherwise, when f has a hyphen and both parts around
\* its last hyphen are non-empty once their surrounding white space is
\* trimmed, it returns the trimmed parts; otherwise it returns (m, f);
\* neither component is empty when f and m are not.
C16_SplitAnyCaseLatestAndTrimmedParts ==
    LastCall("split_version_parts")
      => /\ SplitAs(call.val.args.fragment, call.val.args.major, ret.val,
                    to_ascii_lowercase(call.val.args.fragment) = Bytes("latest"), Trim)
         /\ NeitherEmpty(call.val.args.fragment, call.val.args.major, ret.val)

\* "LATEST" was split for major 9 and came back as (9, latest).
C16_Witness ==
    /\ LastCall("split_version_parts")
    /\ call.val.args.fragment = Bytes("LATEST")
    /\ call.val.args.major = Bytes("9")
    /\ ret.val = <<Bytes("9"), Bytes("latest")>>

\* The ways to read f as AlmaLinux-<major>-<variant>-<version>.<arch>.<ext>
Readings(f) ==
    {g \in {Captures(SubSeq(f, Len(Bytes("AlmaLinux-")) + 1, c[1] - 1), SubSeq(f, c[1] + 1, c[2] - 1),
                     SubSeq(f, c[2] + 1, c[3] - 1), SubSeq(f, c[3] + 1, c[4] - 1),
                     SubSeq(f, c[4] + 1, Len(f))) :
               c \in {c \in {i \in 1..Len(f) : f[i] = 45} \X {i \in 1..Len(f) : f[i] = 45}
                            \X {i \in 1..Len(f) : f[i] = 46} \X {i \in 1..Len(f) : f[i] = 46} :
                        Len(Bytes("AlmaLinux-")) < c[1] /\ c[1] < c[2] /\ c[2] < c[3] /\ c[3] < c[4]}} :
        /\ SubSeq(f, 1, Len(Bytes("AlmaLinux-"))) = Bytes("AlmaLinux-")
        /\ g.major # << >> /\ \A k \in 1..Len(g.major) : IsDigit(g.major[k])
        /\ g.variant # << >> /\ \A k \in 1..Len(g.variant) : IsAlnum(g.variant[k]) \/ g.variant[k] = 45
        /\ g.version # << >> /\ \A k \in 1..Len(g.version) : IsAlnum(g.version[k]) \/ g.version[k] \in {45, 46}
        /\ g.arch # << >> /\ \A k \in 1..Len(g.arch) : IsAlnum(g.arch[k]) \/ g.arch[k] = 95
        /\ g.ext # << >> /\ \A k \in 1..Len(g.ext) : g.ext[k] # 10}

\* The reading with the longest variant and, of those, the longest version
GreedyReading(f) ==
    CHOOSE g \in Readings(f) :
      \A q \in Readings(f) :
        \/ Len(q.variant) < Len(g.variant)
        \/ Len(q.variant) = Len(g.variant) /\ Len(q.version) <= Len(g.version)

\* The architecture or the extension of the reading g rules the file out
RuledOut(g, a, anyCase) ==
    IF anyCase
    THEN \/ to_ascii_lowercase(g.arch) # to_ascii_lowercase(a)
         \/ Contains(to_ascii_lowercase(g.ext), Bytes("checksum"))
         \/ EndsWith(to_ascii_lowercase(g.ext), Bytes(".sig"))
    ELSE \/ g.arch # a
         \/ Contains(g.ext, Bytes("checksum"))
         \/ EndsWith(g.ext, Bytes(".sig"))

ParsedAs(f, a, g, out, anyCase) ==
    IF RuledOut(g, a, anyCase) THEN out = None
    ELSE /\ out.some
         /\ out.val.filename = f
         /\ out.val.major = g.major
         /\ out.val.variant = g.variant
         /\ out.val.arch = g.arch
         /\ out.val.format = g.ext

ParsedByGrammar(f, a, out, anyCase) ==
    IF Readings(f) = {} THEN out = None ELSE ParsedAs(f, a, GreedyReading(f), out, anyCase)

\* No image of the list is of another architecture, a checksum file or a
\* signature file
OnlyImagesOf(imgs, a, anyCase) ==
    \A k \in 1..Len(imgs) :
      /\ IF anyCase THEN to_ascii_lowercase(imgs[k].arch) = to_ascii_lowercase(a)
         ELSE imgs[k].arch = a
      /\ ~Contains(to_ascii_lowercase(imgs[k].image_type), Bytes("checksum"))
      /\ ~EndsWith(to_ascii_lowercase(imgs[k].image_type), Bytes(".sig"))

\* C17 as stated: parse_artifact_filename(f, arch) returns None whenever the
\* architecture segment of f differs from arch or the extension of f
\* contains "checksum" or ends in ".sig"; for every other file name of the
\* grammar it returns an artifact with f's major, variant, architecture and
\* extension; almalinux_list returns no image of another architecture, no
\* checksum file and no signature file.
C17_ParseRejectsExactly ==
    /\ LastCall("parse_artifact_filename")
         => ParsedByGrammar(call.val.args.filename, call.val.args.expected_arch, ret.val, FALSE)
    /\ (LastCall("almalinux_list") /\ ret.val.ok)
         => OnlyImagesOf(ret.val.val, Bytes(call.val.args.arch), FALSE)

\* C17: parse_artifact_filename(f, arch) returns None when f is not of the
\* grammar, when its architecture segment differs from arch by more than
\* ASCII letter case, and when its extension, lower-cased, contains
\* "checksum" or ends in ".sig"; for every other file name it returns an
\* artifact whose major, variant, architecture and extension are the
\* segments of f as the grammar's greedy match cuts them (the longest
\* variant, then the longest version), the architecture as f writes it;
\* almalinux_list returns no image whose architecture differs from the
\* requested one by more than letter case and none whose extension contains
\* "checksum" or ends in ".sig" in any case.
C17_ParseRejectsIgnoringCase ==
    /\ LastCall("parse_artifact_filename")
         => ParsedByGrammar(call.val.args.filename, call.val.args.expected_arch, ret.val, TRUE)
    /\ (LastCall("almalinux_list") /\ ret.val.ok)
         => OnlyImagesOf(ret.val.val, Bytes(call.val.args.arch), TRUE)

\* A file name written with X86_64 was parsed for x86_64: the artifact
\* keeps the architecture as the file name writes it.
C17_Witness ==
    /\ LastCall("parse_artifact_filename")
    /\ call.val.args.filename
         = FileName(Bytes("9"), Bytes("GenericCloud"), Bytes("latest"), Bytes("X86_64"), Bytes("qcow2"))
    /\ call.val.args.expected_arch = Bytes("x86_64")
    /\ ret.val.some
    /\ ret.val.val.arch = Bytes("X86_64")

\* x comes before y by (distro_version descending, version descending, name
\* ascending, image type ascending), the fields compared as byte strings
ComesBefore(x, y) ==
    \/ BytesLess(y.distro_version, x.distro_version)
    \/ /\ x.distro_version = y.distro_version
       /\ \/ BytesLess(y.version, x.version)
          \/ /\ x.version = y.version
             /\ \/ BytesLess(x.name, y.name)
                \/ x.name = y.name /\ BytesLess(x.image_type, y.image_type)

SameKey(x, y) ==
    /\ x.distro_version = y.distro_version
    /\ x.version = y.version
    /\ x.name = y.name
    /\ x.image_type = y.image_type

\* The images of the manifest's lines in the order of the lines
InManifestOrder(a, answer) ==
    alma_lines_images(WithSlash(Flat(repository_base_url("9", a).val)), Bytes(a),
                      lines(answer.val.text.val))

OrderedAndStable(imgs, unsorted) ==
    /\ \A i, j \in 1..Len(imgs) : i < j => (ComesBefore(imgs[i], imgs[j]) \/ SameKey(imgs[i], imgs[j]))
    /\ \A k \in 1..Len(imgs) :
         SelectSeq(imgs, LAMBDA x : SameKey(x, imgs[k]))
           = SelectSeq(unsorted, LAMBDA x : SameKey(x, imgs[k]))
    /\ Len(imgs) = Len(unsorted)

\* C18: the images almalinux_list returns are ordered by (distro_version
\* descending, image version descending, name ascending, image type
\* ascending), images of equal key in the order of their manifest lines,
\* and sorting the returned list again leaves it unchanged.
C18_SortedStableIdempotent ==
    (LastCall("almalinux_list") /\ ret.val.ok)
      => /\ OrderedAndStable(ret.val.val, InManifestOrder(call.val.args.arch, call.val.args.answer))
         /\ alma_sorted(ret.val.val) = ret.val.val

\* Three lines out of order, two of them of one file with different
\* digests: the list came back reordered, the two in their manifest order.
C18_Witness ==
    /\ LastCall("almalinux_list")
    /\ ret.val.ok
    /\ Len(ret.val.val) = 3
    /\ ret.val.val # InManifestOrder(call.val.args.arch, call.val.args.answer)
    /\ ret.val.val[1].distro_version = Bytes("9.10")
    /\ SameKey(ret.val.val[2], ret.val.val[3])
    /\ ret.val.val[2].checksum = Some(ImageChecksum("sha256", HexUpper(Sha256HexLen)))
    /\ ret.val.val[3].checksum = Some(ImageChecksum("sha256", HexLower(Sha256HexLen)))

\* The registry gives no root to list the majors under: it was never
\* initialized, has no almalinux entry, or that entry has neither a
\* majors_root parameter nor a placeholder in its URL
NoMajorsRoot ==
    \/ ~CACHE.some
    \/ \A i \in 1..Len(CACHE.val) : CACHE.val[i].name # "almalinux"
    \/ \E i \in 1..Len(CACHE.val) :
         /\ CACHE.val[i].name = "almalinux"
         /\ \A j \in 1..(i - 1) : CACHE.val[j].name # "almalinux"
         /\ ~(CACHE.val[i].other_parameters.some
              /\ "majors_root" \in DOMAIN CACHE.val[i].other_parameters.val)
         /\ \A k \in 1..Len(CACHE.val[i].url) : CACHE.val[i].url[k] # "{}"

\* The majors a page links: its targets of one or two digits
LinkedMajors(html) ==
    {s \in MajorNames : Bytes(s) \in LinkTargets /\ Contains(html, Anchor(Bytes(s)))}

ListingRead(answer) == answer.ok /\ answer.val.status = 200 /\ answer.val.text.ok

\* list holds the majors of S, each once, from the greatest byte string down
EachOnceDescending(list, S) ==
    /\ {list[k] : k \in 1..Len(list)} = S
    /\ \A k \in 1..(Len(list) - 1) : StrLess(list[k + 1], list[k])

MajorsOrDefault(answer, list) ==
    IF NoMajorsRoot \/ ~ListingRead(answer) THEN list = <<"9", "8">>
    ELSE IF LinkedMajors(answer.val.text.val) = {} THEN list = <<"9", "8">>
    ELSE EachOnceDescending(list, LinkedMajors(answer.val.text.val))

\* C19: available_majors returns Ok with a non-empty list: ["9", "8"] when
\* the registry gives no majors root, when the listing cannot be fetched or
\* read, and when it links no directory of one or two digits; otherwise
\* the linked majors, each once, in descending order of their strings.
C19_MajorsOrDefault ==
    LastCall("available_majors")
      => /\ ret.val.ok
         /\ ret.val.val # << >>
         /\ MajorsOrDefault(call.val.args.answer, ret.val.val)

\* A page that links 9, 10 and 8 was listed: "10" comes last, below "8" as
\* a string.
C19_Witness ==
    /\ LastCall("available_majors")
    /\ ~NoMajorsRoot
    /\ ListingRead(call.val.args.answer)
    /\ LinkedMajors(call.val.args.answer.val.text.val) = {"8", "9", "10"}
    /\ ret.val = Ok(<<"9", "8", "10">>)

-----------------------------------------------------------------------------
(* The catalogue cache *)

\* C20: once a catalogue construction has fetched the catalog and stored
\* it at its cache path, every later construction for the same track
\* issues no request and returns what decoding the stored document gives;
\* and a construction issues a request only when the cache file did not
\* exist as it began.
C20_CachedCatalogueSkipsNetwork ==
    /\ \A i, j \in 1..Len(resolutions) :
         (i < j /\ resolutions[i].stored.some /\ resolutions[j].track = resolutions[i].track)
           => /\ resolutions[j].requests = << >>
              /\ resolutions[j].out = serde_from_slice(resolutions[i].stored.val)
    /\ \A j \in 1..Len(resolutions) : resolutions[j].requests # << >> => ~resolutions[j].existed

\* A first construction for releases failed on the network, a second
\* fetched and cached the first document, and a third returned its catalog
\* without a request.
C20_Witness ==
    /\ Len(resolutions) = 3
    /\ resolutions[1].out = Panicked
    /\ resolutions[2].track = "releases"
    /\ resolutions[2].stored = Some("releases.1")
    /\ Len(resolutions[2].requests) = 1
    /\ resolutions[3].track = "releases"
    /\ resolutions[3].requests = << >>
    /\ resolutions[3].out = serde_from_slice("releases.1")
    /\ resolutions[3].out.ok
    /\ asked = << >>

-----------------------------------------------------------------------------
(* The images of the three list functions *)

\* The text of a field: ubuntu_list keeps the catalog's strings, the other
\* two the bytes they parsed
FieldText(x) == IF call.val.fn = "ubuntu_list" THEN Bytes(x) ELSE x

\* A URL with a scheme, "://" and a host
AbsoluteUrl(t) ==
    \E e \in 2..Len(t) :
      /\ IsUpper(t[1]) \/ IsLower(t[1])
      /\ \A k \in 1..(e - 1) : IsAlnum(t[k]) \/ t[k] \in {43, 45, 46}
      /\ MatchAt(t, e, Bytes("://"))
      /\ e + 3 <= Len(t)
      /\ t[e + 3] # 47

ListReturned ==
    /\ call.some
    /\ call.val.fn \in {"ubuntu_list", "debian_list", "almalinux_list"}
    /\ ret.some
    /\ ret.val.ok

\* C21: every image ubuntu_list, debian_list or almalinux_list returns has
\* an absolute URL, a non-empty distro_version and a non-empty version.
C21_AbsoluteUrlNonEmptyVersions ==
    ListReturned
      => \A k \in 1..Len(ret.val.val) :
           /\ AbsoluteUrl(ret.val.val[k].url)
           /\ FieldText(ret.val.val[k].distro_version) # << >>
           /\ FieldText(ret.val.val[k].version) # << >>

\* A digest of n lower-case hex digits
LowerHexOf(value, n) == Len(value) = n /\ \A k \in 1..n : IsDigit(value[k]) \/ value[k] \in 97..102

DigestFitsTag(checksum) ==
    \/ checksum.kind = "sha256" /\ LowerHexOf(checksum.value, Sha256HexLen)
    \/ checksum.kind = "sha512" /\ LowerHexOf(checksum.value, Sha512HexLen)

\* C22: every checksum a list function attaches to an image is a
\* lower-case hex digest of 64 digits when tagged sha256 and of 128 digits
\* when tagged sha512.
C22_DigestFitsAlgorithm ==
    ListReturned
      => \A k \in 1..Len(ret.val.val) :
           ret.val.val[k].checksum.some => DigestFitsTag(ret.val.val[k].checksum.val)

-----------------------------------------------------------------------------
(* The download of the selected artifact *)

\* The one request of download_file was answered with a non-success status.
DownloadRefused == dlStatus.some /\ dlStatus.val # "200"

\* C23: the artifact download issues one request and never another, and a
\* request that fails, in transport or by a non-success HTTP status, ends
\* the fetch with an error: no success is reported for it.
C23_OneRequestFailureIsError ==
    /\ Cardinality(DownloadRequests) <= 1
    /\ (dlResult.some /\ DownloadRefused) => ~dlResult.val.ok

-----------------------------------------------------------------------------
(* The candidate list through one resolution *)

\* a holds elements of b only, in b's order
RECURSIVE IsSubsequence(_, _)
IsSubsequence(a, b) ==
    IF a = << >> THEN TRUE
    ELSE IF b = << >> THEN FALSE
    ELSE IF Head(a) = Head(b) THEN IsSubsequence(Tail(a), Tail(b))
    ELSE IsSubsequence(a, Tail(b))

\* The prompts shown on the candidate list: the narrowing steps and the
\* artifact step
CandidatePrompts ==
    SelectSeq(prompts, LAMBDA p : p.step \in NarrowSteps \cup {"artifact"})

\* The candidate list as it went: what the provider function returned, the
\* list each later prompt was shown on, the list as it is now
CandidateLists ==
    <<listed.val>> \o [k \in 1..Len(CandidatePrompts) |-> CandidatePrompts[k].cands]
                   \o <<images>>

ListRequests == {i \in 1..Len(netlog) : netlog[i].by \in ListFunctions}

\* C24: during one resolution the provider list function is called exactly
\* once, and after every filter step the candidate list is a subsequence of
\* the list before the step: same elements in the same relative order,
\* nothing added, altered or fetched again.
C24_ListedOnceThenOnlyFiltered ==
    /\ listCalls <= 1
    /\ Cardinality(ListRequests) <= 1
    /\ (listed.some \/ selected.some \/ CandidatePrompts # << >>) => listCalls = 1
    /\ listed.some =>
          \A k \in 1..(Len(CandidateLists) - 1) :
              IsSubsequence(CandidateLists[k + 1], CandidateLists[k])

\* An Ubuntu resolution completed on a list of three images that its
\* filters cut to one, step by step.
C24_Witness ==
    /\ selected.some
    /\ distro = Some("Ubuntu")
    /\ listCalls = 1
    /\ Len(listed.val) = 3
    /\ Len(CandidateLists) = 6
    /\ Len(CandidateLists[3]) = 2
    /\ Len(images) = 1

\* C25: in a resolution whose provider list is non-empty, no filter step
\* empties the candidate list and no empty-result error is raised, the
\* Debian path that filters on the detected major version included (every
\* selection of the model is one of the options offered).
C25_FilterNeverEmpties ==
    (listed.some /\ listed.val # << >>) =>
        /\ images # << >>
        /\ ~(error.some /\ error.val.kind = "empty")

\* The values of a step's field over a candidate list
FieldValues(cands, step) == {Field(cands[k], step) : k \in 1..Len(cands)}

Descending(items) == \A k, l \in 1..Len(items) : k < l => StrLess(items[l], items[k])

Ascending(items) == \A k, l \in 1..Len(items) : k < l => StrLess(items[k], items[l])

\* C26: at each narrowing step the options offered are exactly the distinct
\* values of the step's field over the current candidate list, none twice:
\* in descending lexicographic order for distro version and build version,
\* in ascending order for image type.
C26_OptionsDistinctAndOrdered ==
    \A i \in 1..Len(prompts) :
        LET p == prompts[i]
        IN  p.step \in NarrowSteps =>
              /\ {p.items[k] : k \in 1..Len(p.items)} = FieldValues(p.cands, p.step)
              /\ \A k, l \in 1..Len(p.items) : p.items[k] = p.items[l] => k = l
              /\ p.step \in {"distro_version", "version"} => Descending(p.items)
              /\ p.step = "image_type" => Ascending(p.items)

\* An Ubuntu resolution offered two distro versions on a list that holds
\* one of them twice, then two image types.
C26_Witness ==
    /\ distro = Some("Ubuntu")
    /\ \E i, j \in 1..Len(prompts) :
         /\ prompts[i].step = "distro_version"
         /\ prompts[i].items = <<"9", "10">>
         /\ Len(prompts[i].cands) = 3
         /\ prompts[j].step = "image_type"
         /\ prompts[j].items = <<"qcow2", "raw">>

-----------------------------------------------------------------------------
(* ubuntu_list on a product without an OS name *)

\* C27: when a product of the catalog has no OS name, ubuntu_list fails as a
\* whole and returns no image list, whatever the requested architecture and
\* whatever the other products hold.
C27_MissingOsFailsList ==
    LastCall("ubuntu_list") =>
        ((\E k \in DOMAIN call.val.args.catalog.products :
              ~call.val.args.catalog.products[k].os.some)
           => ~ret.val.ok)

\* C29: the catalog a construction returns for a track is the decoded
\* document of that track's catalog URL: a catalog cached while resolving
\* one track never answers a construction for another track.
C29_CatalogOfOwnTrack ==
    /\ \A j \in 1..Len(resolutions) :
         resolutions[j].out.ok =>
            \E d \in TrackDocuments(resolutions[j].track) :
                resolutions[j].out = serde_from_slice(d)
    /\ \A i, j \in 1..Len(resolutions) :
         (i < j /\ resolutions[i].stored.some /\ resolutions[j].track # resolutions[i].track)
           => ~(/\ resolutions[j].requests = << >>
                /\ resolutions[j].out = serde_from_slice(resolutions[i].stored.val))

\* C28: at the final artifact step the labels of the surviving candidates
\* are pairwise distinct, and the candidate returned for the label selected
\* is the candidate at the selected position, never another one that shares
\* its label.
C28_LabelsTellCandidatesApart ==
    \A i \in 1..Len(prompts) :
        LET p == prompts[i]
        IN  p.step = "artifact" =>
              /\ \A k, l \in 1..Len(p.items) : p.items[k] = p.items[l] => k = l
              /\ (selected.some /\ p.sel.some) => selected.val = p.cands[p.sel.val]

\* The steps whose selection names a field of the image returned
SelectedFields == {"arch", "distro_version", "version", "image_type"}

FieldOrArch(c, step) == IF step = "arch" THEN c.arch ELSE Field(c, step)

=============================================================================
